---- MODULE Spec2Model ----
(***************************************************************************)
(* Type metadata identifiers for LLVM CFI (Itanium C++ ABI mangling):      *)
(* compiler/rustc_symbol_mangling/src/typeid/itanium_cxx_abi.rs and        *)
(* compiler/rustc_symbol_mangling/src/typeid.rs.                           *)
(*                                                                         *)
(* A Rust String is a sequence of one-character strings.  Every encoder    *)
(* call of the source is a frame on `stack` (the String it is building)   *)
(* and the rest of its body is a run of instructions on `todo`; a         *)
(* recursive call pushes a frame, its return pops the frame and appends   *)
(* it to the caller's String.                                              *)
(***************************************************************************)
EXTENDS Integers, Sequences, FiniteSets, TLC

\* ------------------------------------------------------------------ bounds

\* Longest argument list of a sampled FnAbi.
MaxArgs == 2
\* Threads of the concurrent specification.
NThreads == 2
\* Distinct element types of the widest sampled tuple.
MaxWide == 40
\* How deep the sampled receiver types wrap a pointer.
MaxWrap == 2
\* How many statements the start block of a sampled Body holds.
MaxStmts == 2

\* ------------------------------------------------------------------ strings

Digits == <<"0","1","2","3","4","5","6","7","8","9">>

\* The alphabet of rustc_data_structures::base_n (its first 62 digits).
BASE_64 == Digits \o
  <<"a","b","c","d","e","f","g","h","i","j","k","l","m",
    "n","o","p","q","r","s","t","u","v","w","x","y","z",
    "A","B","C","D","E","F","G","H","I","J","K","L","M",
    "N","O","P","Q","R","S","T","U","V","W","X","Y","Z">>

Lower == <<"a","b","c","d","e","f","g","h","i","j","k","l","m",
           "n","o","p","q","r","s","t","u","v","w","x","y","z">>
Upper == <<"A","B","C","D","E","F","G","H","I","J","K","L","M",
           "N","O","P","Q","R","S","T","U","V","W","X","Y","Z">>

\* char::to_uppercase on the ASCII characters base_n produces.
ToUpperChar(c) ==
  IF \E i \in 1..26 : Lower[i] = c
    THEN Upper[CHOOSE i \in 1..26 : Lower[i] = c]
    ELSE c

to_uppercase(s) == [i \in 1..Len(s) |-> ToUpperChar(s[i])]

RECURSIVE base_n_encode(_, _)
\* base_n::encode(n, base): the digits of n in `base`, most significant first;
\* "0" for n = 0.
base_n_encode(n, base) ==
  IF n < base
    THEN <<BASE_64[n + 1]>>
    ELSE Append(base_n_encode(n \div base, base), BASE_64[(n % base) + 1])

\* format!("{}", n) of an unsigned integer.
Dec(n) == base_n_encode(n, 10)

StartsWith(s, p) == Len(s) >= Len(p) /\ SubSeq(s, 1, Len(p)) = p
EndsWith(s, p) == Len(s) >= Len(p) /\ SubSeq(s, Len(s) - Len(p) + 1, Len(s)) = p
DropSuffix(s, p) == SubSeq(s, 1, Len(s) - Len(p))
\* Occurrences of p in s.
Count(s, p) ==
  Cardinality({i \in 1..Len(s) : i + Len(p) - 1 <= Len(s)
                                 /\ SubSeq(s, i, i + Len(p) - 1) = p})

\* ------------------------------------------------------------------ numerals

to_disambiguator(num) ==
  IF num >= 1
    THEN <<"s">> \o base_n_encode(num - 1, 62) \o <<"_">>
    ELSE <<"s", "_">>

\* to_seq_id that numbers from zero and keeps base_n's lowercase digits.
to_seq_id_raw(num) == base_n_encode(num, 36)

to_seq_id(num) ==
  IF num >= 1
    THEN to_uppercase(base_n_encode(num - 1, 36))
    ELSE <<>>

\* ------------------------------------------------------------------ dictionary

TyQ == {"None", "Const", "Mut"}

KeyTy(ty, q) == [k |-> "Ty", ty |-> ty, q |-> q]
KeyRegion(r) == [k |-> "Region", region |-> r]
KeyConst(c) == [k |-> "Const", const |-> c]
KeyPredicate(p) == [k |-> "Predicate", pred |-> p]

\* FxHashMap::default()
EmptyDict == [k \in {} |-> 0]

\* An insertion that numbers the entries from one.
DictInsert_from_one(dict, key, num) ==
  [k \in DOMAIN dict \cup {key} |-> IF k = key THEN num + 1 ELSE dict[k]]

\* dict.insert(key, dict.len())
DictInsert(dict, key, num) ==
  [k \in DOMAIN dict \cup {key} |-> IF k = key THEN num ELSE dict[k]]

\* compress without comp.clear(): the back-reference follows the expansion.
compress_noclear(dict, key, comp) ==
  IF key \in DOMAIN dict
    THEN [dict |-> dict, comp |-> comp \o <<"S">> \o to_seq_id(dict[key]) \o <<"_">>]
    ELSE [dict |-> DictInsert(dict, key, Cardinality(DOMAIN dict)), comp |-> comp]

\* compress(dict, key, comp): the dictionary and the String afterwards.
compress(dict, key, comp) ==
  IF key \in DOMAIN dict
    THEN [dict |-> dict, comp |-> <<"S">> \o to_seq_id(dict[key]) \o <<"_">>]
    ELSE [dict |-> DictInsert(dict, key, Cardinality(DOMAIN dict)), comp |-> comp]

\* ------------------------------------------------------------------ options

GENERALIZE_POINTERS == "GENERALIZE_POINTERS"
GENERALIZE_REPR_C == "GENERALIZE_REPR_C"
NORMALIZE_INTEGERS == "NORMALIZE_INTEGERS"
NO_SELF_TYPE_ERASURE == "NO_SELF_TYPE_ERASURE"

\* A TypeIdOptions value is the set of its bits.
TypeIdOptions ==
  SUBSET {GENERALIZE_POINTERS, GENERALIZE_REPR_C, NORMALIZE_INTEGERS, NO_SELF_TYPE_ERASURE}

\* ------------------------------------------------------------------ type IR

\* Items known to the type context: the def path, the crate, and the
\* attributes the encoder asks for.
Crate(name, id) == [name |-> name, stable_crate_id |-> id]
PathComp(data, name, dis) == [data |-> data, name |-> name, disambiguator |-> dis]
NoAttr == [present |-> FALSE, has_value |-> FALSE, value |-> <<>>]
Attr(value) == [present |-> TRUE, has_value |-> TRUE, value |-> value]
Item(krate, path, cfi, c) ==
  [krate |-> krate, path |-> path, cfi_encoding |-> cfi, repr_c |-> c]

\* tcx.item_name(def_id)
item_name(def) == def.path[Len(def.path)].name

ReErased == [rk |-> "ReErased"]
ReBound(debruijn, var) == [rk |-> "ReBound", debruijn |-> debruijn, var |-> var]
ReStatic == [rk |-> "ReStatic"]

TBool == [kind |-> "Bool"]
TInt(w) == [kind |-> "Int", w |-> w]
TUint(w) == [kind |-> "Uint", w |-> w]
TFloat(w) == [kind |-> "Float", w |-> w]
TChar == [kind |-> "Char"]
TStr == [kind |-> "Str"]
TNever == [kind |-> "Never"]
TTuple(tys) == [kind |-> "Tuple", tys |-> tys]
TUnit == TTuple(<<>>)
TArray(ty, len) == [kind |-> "Array", ty |-> ty, len |-> len]
TSlice(ty) == [kind |-> "Slice", ty |-> ty]
TAdt(def, args) == [kind |-> "Adt", def |-> def, args |-> args]
TForeign(def) == [kind |-> "Foreign", def |-> def]
TFnDef(def, args) == [kind |-> "FnDef", def |-> def, args |-> args]
TClosure(def, args) == [kind |-> "Closure", def |-> def, args |-> args]
TCoroutine(def, parent_args) == [kind |-> "Coroutine", def |-> def, args |-> parent_args]
TRef(region, ty, mutbl) == [kind |-> "Ref", region |-> region, ty |-> ty, mutbl |-> mutbl]
TRawPtr(ty, mutbl) == [kind |-> "RawPtr", ty |-> ty, mutbl |-> mutbl]
TFnPtr(sig) == [kind |-> "FnPtr", sig |-> sig]
TDynamic(preds, region, dyn) ==
  [kind |-> "Dynamic", preds |-> preds, region |-> region, dyn |-> dyn]
TParam == [kind |-> "Param"]
TInfer == [kind |-> "Infer"]

FnSig(abi, output, inputs, c_variadic) ==
  [abi |-> abi, output |-> output, inputs |-> inputs, c_variadic |-> c_variadic]

ConstParam(ty) == [ck |-> "Param", ty |-> ty, bits |-> 0]
ConstValue(ty, bits) == [ck |-> "Value", ty |-> ty, bits |-> bits]

ArgLifetime(r) == [ak |-> "Lifetime", region |-> r]
ArgType(ty) == [ak |-> "Type", ty |-> ty]
ArgConst(c) == [ak |-> "Const", const |-> c]

PredTrait(def, args) == [pk |-> "Trait", def |-> def, args |-> args]
PredProjection(def, args, term) ==
  [pk |-> "Projection", def |-> def, args |-> args, term |-> term]
PredAutoTrait(def) == [pk |-> "AutoTrait", def |-> def]

ArgAbi(ty, mode) == [ty |-> ty, mode |-> mode]
FnAbi(conv, ret, args, c_variadic, fixed_count) ==
  [conv |-> conv, ret |-> ret, args |-> args,
   c_variadic |-> c_variadic, fixed_count |-> fixed_count]

\* ty.is_unit()
is_unit(ty) == ty.kind = "Tuple" /\ ty.tys = <<>>
\* ty.is_mutable_ptr()
is_mutable_ptr(ty) == ty.kind \in {"Ref", "RawPtr"} /\ ty.mutbl

Reverse(s) == [i \in 1..Len(s) |-> s[Len(s) + 1 - i]]

RECURSIVE Concat(_)
\* The concatenation of a sequence of Strings.
Concat(ss) == IF ss = <<>> THEN <<>> ELSE Head(ss) \o Concat(Tail(ss))

\* str::trim on the whitespace the attribute values here contain.
RECURSIVE TrimStart(_)
TrimStart(s) == IF s # <<>> /\ Head(s) = " " THEN TrimStart(Tail(s)) ELSE s
trim(s) == Reverse(TrimStart(Reverse(TrimStart(s))))

\* ------------------------------------------------------------------ encode_ty_name

NamespaceTag(data) ==
  CASE data = "Impl" -> <<"I">>
    [] data = "ForeignMod" -> <<"F">>
    [] data = "TypeNs" -> <<"t">>
    [] data = "ValueNs" -> <<"v">>
    [] data = "Closure" -> <<"C">>
    [] data = "Ctor" -> <<"c">>
    [] data = "AnonConst" -> <<"k">>
    [] data = "OpaqueTy" -> <<"i">>

\* The "N<tag>" run of a def path that is not reversed.
NamespaceTags_root_first(def) ==
  Concat([i \in 1..Len(def.path) |-> <<"N">> \o NamespaceTag(def.path[i].data)])

\* The "N<tag>" run: the def path is reversed before the loop.
NamespaceTags(def) ==
  LET data == Reverse(def.path)
  IN Concat([i \in 1..Len(data) |-> <<"N">> \o NamespaceTag(data[i].data)])

\* The decimal length counting the '_' that is inserted.
PathName_counts_underscore(comp) ==
  LET extra == IF Head(comp.name) \in {Digits[i] : i \in 1..10} \cup {"_"}
                 THEN <<"_">> ELSE <<>>
  IN (IF comp.disambiguator > 0 THEN to_disambiguator(comp.disambiguator) ELSE <<>>)
     \o Dec(Len(extra \o comp.name)) \o extra \o comp.name

\* One "[disambiguator]<len>[_]<name>" of the second loop.
PathName(comp) ==
  (IF comp.disambiguator > 0 THEN to_disambiguator(comp.disambiguator) ELSE <<>>)
  \o Dec(Len(comp.name))
  \o (IF Head(comp.name) \in {Digits[i] : i \in 1..10} \cup {"_"} THEN <<"_">> ELSE <<>>)
  \o comp.name

encode_ty_name(def) ==
  NamespaceTags(def)
  \o <<"C">> \o to_disambiguator(def.krate.stable_crate_id)
  \o Dec(Len(def.krate.name)) \o def.krate.name
  \o Concat([i \in 1..Len(def.path) |-> PathName(def.path[i])])

\* "u{}{}", name.len(), &name
VendorName(def) ==
  LET name == encode_ty_name(def) IN <<"u">> \o Dec(Len(name)) \o name

\* "{}{}", name.len(), &name of tcx.item_name(def_id)
UnscopedName(def) ==
  LET name == item_name(def) IN Dec(Len(name)) \o name

\* ------------------------------------------------------------------ transform

RECURSIVE transform(_, _)
\* typeid::ty::transform(tcx, options, ty): with GENERALIZE_POINTERS every
\* reference and raw pointer becomes the one opaque pointer *const (), at any
\* depth; the other bits leave the sampled types as they are.
transform(options, ty) ==
  IF GENERALIZE_POINTERS \notin options THEN ty
  ELSE CASE ty.kind \in {"Ref", "RawPtr"} -> TRawPtr(TUnit, FALSE)
         [] ty.kind = "Tuple" ->
              TTuple([i \in 1..Len(ty.tys) |-> transform(options, ty.tys[i])])
         [] ty.kind = "Array" -> TArray(transform(options, ty.ty), ty.len)
         [] ty.kind = "Slice" -> TSlice(transform(options, ty.ty))
         [] OTHER -> ty

\* ------------------------------------------------------------------ encoder bodies

\* What remains to run of the encoder calls in progress.
CallTy(ty, o) == [op |-> "encode_ty", ty |-> ty, options |-> o]
CallFnSig(sig, o) == [op |-> "encode_fnsig", sig |-> sig, options |-> o]
CallArgs(args, o) == [op |-> "encode_args", args |-> args, options |-> o]
CallConst(c, o) == [op |-> "encode_const", const |-> c, options |-> o]
CallRegion(r) == [op |-> "encode_region", region |-> r]
CallPredicates(ps, o) == [op |-> "encode_predicates", preds |-> ps, options |-> o]
CallPredicate(p, o) == [op |-> "encode_predicate", pred |-> p, options |-> o]
PushStr(str) == [op |-> "push_str", s |-> str]
Prepend(str) == [op |-> "prepend", s |-> str]
Compress(key) == [op |-> "compress", key |-> key]
EmitErr == [op |-> "emit_err"]
Bug == [op |-> "bug"]
Ret == [op |-> "return"]

\* A call's own String as first written, and the rest of its body.
Body(str, rest) == [s |-> str, body |-> rest]

IntName(ty) ==
  CASE ty = TInt("I8") -> <<"u","2","i","8">>
    [] ty = TInt("I16") -> <<"u","3","i","1","6">>
    [] ty = TInt("I32") -> <<"u","3","i","3","2">>
    [] ty = TInt("I64") -> <<"u","3","i","6","4">>
    [] ty = TInt("I128") -> <<"u","4","i","1","2","8">>
    [] ty = TInt("Isize") -> <<"u","5","i","s","i","z","e">>
    [] ty = TUint("U8") -> <<"u","2","u","8">>
    [] ty = TUint("U16") -> <<"u","3","u","1","6">>
    [] ty = TUint("U32") -> <<"u","3","u","3","2">>
    [] ty = TUint("U64") -> <<"u","3","u","6","4">>
    [] ty = TUint("U128") -> <<"u","4","u","1","2","8">>
    [] ty = TUint("Usize") -> <<"u","5","u","s","i","z","e">>

FloatName(ty) ==
  CASE ty.w = "F16" -> <<"D","h">>
    [] ty.w = "F32" -> <<"f">>
    [] ty.w = "F64" -> <<"d">>
    [] ty.w = "F128" -> <<"g">>

builtin_types ==
  {<<"v">>, <<"w">>, <<"b">>, <<"c">>, <<"a">>, <<"h">>, <<"s">>, <<"t">>, <<"i">>,
   <<"j">>, <<"l">>, <<"m">>, <<"x">>, <<"y">>, <<"n">>, <<"o">>, <<"f">>, <<"d">>,
   <<"e">>, <<"g">>, <<"z">>, <<"D","h">>}

\* The unscoped name chosen whenever any option bit is set.
encode_adt_any_bit(ty, options) ==
  LET def == ty.def
      str == trim(def.cfi_encoding.value)
  IN IF def.cfi_encoding.present
       THEN IF def.cfi_encoding.has_value
              THEN IF str # <<>>
                     THEN IF str \notin builtin_types
                            THEN Body(str, <<Compress(KeyTy(ty, "None")), Ret>>)
                            ELSE Body(str, <<Ret>>)
                     ELSE Body(<<>>, <<EmitErr, Ret>>)
              ELSE Body(<<>>, <<Bug>>)
       ELSE IF options # {} /\ def.repr_c
              THEN Body(UnscopedName(def), <<Compress(KeyTy(ty, "None")), Ret>>)
              ELSE Body(VendorName(def),
                        <<CallArgs(ty.args, options), Compress(KeyTy(ty, "None")), Ret>>)

\* The ty::Adt arm with the repr(C) test ahead of the cfi_encoding attribute.
encode_adt_repr_c_first(ty, options) ==
  LET def == ty.def
      str == trim(def.cfi_encoding.value)
  IN IF GENERALIZE_REPR_C \in options /\ def.repr_c
       THEN Body(UnscopedName(def), <<Compress(KeyTy(ty, "None")), Ret>>)
       ELSE IF def.cfi_encoding.present
              THEN IF def.cfi_encoding.has_value
                     THEN IF str # <<>>
                            THEN IF str \notin builtin_types
                                   THEN Body(str, <<Compress(KeyTy(ty, "None")), Ret>>)
                                   ELSE Body(str, <<Ret>>)
                            ELSE Body(<<>>, <<EmitErr, Ret>>)
                     ELSE Body(<<>>, <<Bug>>)
              ELSE Body(VendorName(def),
                        <<CallArgs(ty.args, options), Compress(KeyTy(ty, "None")), Ret>>)

\* The ty::Adt arm of encode_ty.
encode_adt(ty, options) ==
  LET def == ty.def
      str == trim(def.cfi_encoding.value)
  IN IF def.cfi_encoding.present
       THEN IF def.cfi_encoding.has_value
              THEN IF str # <<>>
                     THEN IF str \notin builtin_types
                            THEN Body(str, <<Compress(KeyTy(ty, "None")), Ret>>)
                            ELSE Body(str, <<Ret>>)
                     ELSE Body(<<>>, <<EmitErr, Ret>>)
              ELSE Body(<<>>, <<Bug>>)
       ELSE IF GENERALIZE_REPR_C \in options /\ def.repr_c
              THEN Body(UnscopedName(def), <<Compress(KeyTy(ty, "None")), Ret>>)
              ELSE Body(VendorName(def),
                        <<CallArgs(ty.args, options), Compress(KeyTy(ty, "None")), Ret>>)

\* The ty::Foreign arm of encode_ty.
encode_foreign(ty) ==
  LET def == ty.def
      str == trim(def.cfi_encoding.value)
  IN IF def.cfi_encoding.present
       THEN IF def.cfi_encoding.has_value
              THEN IF str # <<>>
                     THEN Body(str, <<Compress(KeyTy(ty, "None")), Ret>>)
                     ELSE Body(<<>>, <<EmitErr, Compress(KeyTy(ty, "None")), Ret>>)
              ELSE Body(<<>>, <<Bug>>)
       ELSE Body(UnscopedName(def), <<Compress(KeyTy(ty, "None")), Ret>>)

\* The inner form keyed by the reference type as it is, mutable or not.
encode_ref_own_key(ty, options) ==
  Body(<<"u","3","r","e","f","I">>,
       <<CallTy(ty.ty, options), PushStr(<<"E">>), Compress(KeyTy(ty, "None"))>>
       \o (IF is_mutable_ptr(ty)
             THEN <<Prepend(<<"U","3","m","u","t">>), Compress(KeyTy(ty, "Mut"))>>
             ELSE <<>>)
       \o <<Ret>>)

\* The reference entered in the dictionary before its referent is encoded.
encode_ref_key_first(ty, options) ==
  Body(<<"u","3","r","e","f","I">>,
       <<Compress(KeyTy(TRef(ty.region, ty.ty, FALSE), "None")),
         CallTy(ty.ty, options), PushStr(<<"E">>)>>
       \o (IF is_mutable_ptr(ty)
             THEN <<Prepend(<<"U","3","m","u","t">>), Compress(KeyTy(ty, "Mut"))>>
             ELSE <<>>)
       \o <<Ret>>)

\* The ty::Ref arm of encode_ty.
encode_ref(ty, options) ==
  Body(<<"u","3","r","e","f","I">>,
       <<CallTy(ty.ty, options), PushStr(<<"E">>),
         Compress(KeyTy(TRef(ty.region, ty.ty, FALSE), "None"))>>
       \o (IF is_mutable_ptr(ty)
             THEN <<Prepend(<<"U","3","m","u","t">>), Compress(KeyTy(ty, "Mut"))>>
             ELSE <<>>)
       \o <<Ret>>)

\* The "K"-qualified pointee under the key of the pointee itself.
encode_rawptr_unqualified_key(ty, options) ==
  Body(<<>>,
       <<CallTy(ty.ty, options)>>
       \o (IF ~is_mutable_ptr(ty)
             THEN <<Prepend(<<"K">>), Compress(KeyTy(ty.ty, "None"))>>
             ELSE <<>>)
       \o <<Prepend(<<"P">>), Compress(KeyTy(ty, "None")), Ret>>)

\* The whole pointer compressed before its pointee is encoded.
encode_rawptr_outer_first(ty, options) ==
  Body(<<>>,
       <<Compress(KeyTy(ty, "None")), CallTy(ty.ty, options)>>
       \o (IF ~is_mutable_ptr(ty)
             THEN <<Prepend(<<"K">>), Compress(KeyTy(ty.ty, "Const"))>>
             ELSE <<>>)
       \o <<Prepend(<<"P">>), Ret>>)

\* The ty::RawPtr arm of encode_ty.
encode_rawptr(ty, options) ==
  Body(<<>>,
       <<CallTy(ty.ty, options)>>
       \o (IF ~is_mutable_ptr(ty)
             THEN <<Prepend(<<"K">>), Compress(KeyTy(ty.ty, "Const"))>>
             ELSE <<>>)
       \o <<Prepend(<<"P">>), Compress(KeyTy(ty, "None")), Ret>>)

\* The options of the caller handed on to the signature of a fn pointer.
FnPtrOptions_inherited(options) == options

\* typeid::Options::empty(): what the ty::FnPtr arm hands to encode_fnsig.
FnPtrOptions(options) == {}

encode_ty(ty, options) ==
  LET key == KeyTy(ty, "None")
      leaf(str) == Body(str, <<Compress(key), Ret>>)
  IN CASE ty.kind = "Bool" -> Body(<<"b">>, <<Ret>>)
       [] ty.kind \in {"Int", "Uint"} -> leaf(IntName(ty))
       [] ty.kind = "Float" -> Body(FloatName(ty), <<Ret>>)
       [] ty.kind = "Char" -> leaf(<<"u","4","c","h","a","r">>)
       [] ty.kind = "Str" -> leaf(<<"u","3","s","t","r">>)
       [] ty.kind = "Never" -> leaf(<<"u","5","n","e","v","e","r">>)
       [] is_unit(ty) -> Body(<<"v">>, <<Ret>>)
       [] ty.kind = "Tuple" /\ ~is_unit(ty) ->
            Body(<<"u","5","t","u","p","l","e","I">>,
                 [i \in 1..Len(ty.tys) |-> CallTy(ty.tys[i], options)]
                 \o <<PushStr(<<"E">>), Compress(key), Ret>>)
       [] ty.kind = "Array" ->
            Body(<<"A">> \o Dec(ty.len),
                 <<CallTy(ty.ty, options), Compress(key), Ret>>)
       [] ty.kind = "Slice" ->
            Body(<<"u","5","s","l","i","c","e","I">>,
                 <<CallTy(ty.ty, options), PushStr(<<"E">>), Compress(key), Ret>>)
       [] ty.kind = "Adt" -> encode_adt(ty, options)
       [] ty.kind = "Foreign" -> encode_foreign(ty)
       [] ty.kind \in {"FnDef", "Closure", "CoroutineClosure", "Coroutine"} ->
            Body(VendorName(ty.def),
                 <<CallArgs(ty.args, options), Compress(key), Ret>>)
       [] ty.kind = "Ref" -> encode_ref(ty, options)
       [] ty.kind = "RawPtr" -> encode_rawptr(ty, options)
       [] ty.kind = "FnPtr" ->
            Body(<<"P">>, <<CallFnSig(ty.sig, FnPtrOptions(options)), Compress(key), Ret>>)
       [] ty.kind = "Dynamic" ->
            Body(IF ty.dyn = "Dyn" THEN <<"u","3","d","y","n","I">>
                                   ELSE <<"u","7","d","y","n","s","t","a","r","I">>,
                 <<CallPredicates(ty.preds, options), CallRegion(ty.region),
                   PushStr(<<"E">>), Compress(key), Ret>>)
       [] ty.kind = "Param" -> leaf(<<"u","5","p","a","r","a","m">>)
       [] OTHER -> Body(<<>>, <<Bug>>)

\* The options of a signature: GENERALIZE_REPR_C follows the ABI alone.
SigOptions(abi, options) ==
  IF abi = "C" THEN options \cup {GENERALIZE_REPR_C}
               ELSE options \ {GENERALIZE_REPR_C}

\* encode_fnsig leaving out the parameters of type ().
encode_fnsig_filters_unit(fn_sig, options0) ==
  LET options == SigOptions(fn_sig.abi, options0)
      tys == SelectSeq(fn_sig.inputs, LAMBDA ty : ~is_unit(ty))
  IN Body(<<"F">>,
          <<CallTy(transform(options, fn_sig.output), options)>>
          \o [i \in 1..Len(tys) |-> CallTy(transform(options, tys[i]), options)]
          \o (IF tys # <<>>
                THEN (IF fn_sig.c_variadic THEN <<PushStr(<<"z">>)>> ELSE <<>>)
                ELSE (IF fn_sig.c_variadic THEN <<PushStr(<<"z">>)>>
                                           ELSE <<PushStr(<<"v">>)>>))
          \o <<PushStr(<<"E">>), Ret>>)

encode_fnsig(fn_sig, options0) ==
  LET options == SigOptions(fn_sig.abi, options0)
      tys == fn_sig.inputs
  IN Body(<<"F">>,
          <<CallTy(transform(options, fn_sig.output), options)>>
          \o [i \in 1..Len(tys) |-> CallTy(transform(options, tys[i]), options)]
          \o (IF tys # <<>>
                THEN (IF fn_sig.c_variadic THEN <<PushStr(<<"z">>)>> ELSE <<>>)
                ELSE (IF fn_sig.c_variadic THEN <<PushStr(<<"z">>)>>
                                           ELSE <<PushStr(<<"v">>)>>))
          \o <<PushStr(<<"E">>), Ret>>)

encode_args(args, options) ==
  LET one(arg) ==
        CASE arg.ak = "Lifetime" -> CallRegion(arg.region)
          [] arg.ak = "Type" -> CallTy(arg.ty, options)
          [] arg.ak = "Const" -> CallConst(arg.const, options)
  IN IF args # <<>>
       THEN Body(<<"I">>,
                 [i \in 1..Len(args) |-> one(args[i])] \o <<PushStr(<<"E">>), Ret>>)
       ELSE Body(<<>>, <<Ret>>)

encode_region(region) ==
  CASE region.rk = "ReBound" ->
         Body(<<"u","6","r","e","g","i","o","n","I">>
              \o (IF region.debruijn > 0 THEN to_disambiguator(region.debruijn) ELSE <<>>)
              \o Dec(region.var) \o <<"E">>,
              <<Compress(KeyRegion(region)), Ret>>)
    [] region.rk \in {"ReEarlyParam", "ReErased"} ->
         Body(<<"u","6","r","e","g","i","o","n">>, <<Compress(KeyRegion(region)), Ret>>)
    [] OTHER -> Body(<<>>, <<Bug>>)

encode_predicate(predicate, options) ==
  LET key == KeyPredicate(predicate)
  IN CASE predicate.pk = "Trait" ->
            Body(VendorName(predicate.def),
                 <<CallArgs(predicate.args, options), Compress(key), Ret>>)
       [] predicate.pk = "Projection" ->
            Body(VendorName(predicate.def),
                 <<CallArgs(predicate.args, options),
                   IF predicate.term.ak = "Type"
                     THEN CallTy(predicate.term.ty, options)
                     ELSE CallConst(predicate.term.const, options),
                   Compress(key), Ret>>)
       [] predicate.pk = "AutoTrait" ->
            Body(VendorName(predicate.def), <<Compress(key), Ret>>)

encode_predicates(predicates, options) ==
  Body(<<>>,
       [i \in 1..Len(predicates) |-> CallPredicate(predicates[i], options)] \o <<Ret>>)

\* Integer::from_int_ty(&tcx, ity).size() in bits (isize on a 64-bit target).
IntSize(ty) ==
  CASE ty.w = "I8" -> 8
    [] ty.w = "I16" -> 16
    [] ty.w = "I32" -> 32
    [] ty.w = "I64" -> 64
    [] ty.w = "I128" -> 128
    [] ty.w = "Isize" -> 64

RECURSIVE Pow2(_)
Pow2(n) == IF n = 0 THEN 1 ELSE 2 * Pow2(n - 1)

\* Size::sign_extend(bits) as i128
sign_extend(bits, size) ==
  IF bits >= Pow2(size - 1) THEN bits - Pow2(size) ELSE bits

\* format!("{val}") of a signed integer: a negative value prints its '-'.
DisplaySigned(val) == IF val < 0 THEN <<"-">> \o Dec(0 - val) ELSE Dec(val)

\* format!("{val}") of a bool.
DisplayBool(val) ==
  IF val THEN <<"t","r","u","e">> ELSE <<"f","a","l","s","e">>

\* The text encode_const writes for the value of a ConstKind::Value.
ConstValueText(c) ==
  LET val == sign_extend(c.bits, IntSize(c.ty))
  IN CASE c.ty.kind = "Int" ->
            (IF val < 0 THEN <<"n">> ELSE <<>>) \o DisplaySigned(val)
       [] c.ty.kind = "Uint" -> Dec(c.bits)
       [] c.ty.kind = "Bool" -> DisplayBool(c.bits # 0)

encode_const(c, options) ==
  CASE c.ck = "Param" ->
         Body(<<"L">>,
              <<CallTy(c.ty, options), PushStr(<<"E">>), Compress(KeyConst(c)), Ret>>)
    [] c.ck = "Value" ->
         Body(<<"L">>,
              <<CallTy(c.ty, options)>>
              \o (IF c.ty.kind \in {"Int", "Uint", "Bool"}
                    THEN <<PushStr(ConstValueText(c)), PushStr(<<"E">>),
                           Compress(KeyConst(c)), Ret>>
                    ELSE <<Bug>>))
    [] OTHER -> Body(<<"L">>, <<Bug>>)

\* ------------------------------------------------------------------ sampled inputs

CrateA == Crate(<<"c","r">>, 1)
TypeNs(name) == PathComp("TypeNs", name, 0)

\* #[repr(C)] struct Foo;
DefFoo == Item(CrateA, <<TypeNs(<<"F","o","o">>)>>, NoAttr, TRUE)
\* mod m { struct Bar<T: ?Sized, const N: u8>; }
DefBar == Item(CrateA, <<TypeNs(<<"m">>), TypeNs(<<"B","a","r">>)>>, NoAttr, FALSE)
\* trait Tr {}
DefTr == Item(CrateA, <<TypeNs(<<"T","r">>)>>, NoAttr, FALSE)
\* #[cfi_encoding = " "] struct Bad;
DefBad == Item(CrateA, <<TypeNs(<<"B","a","d">>)>>, Attr(<<" ">>), FALSE)
\* #[cfi_encoding = " i "] struct CInt;
DefCInt == Item(CrateA, <<TypeNs(<<"C","I","n","t">>)>>, Attr(<<" ","i"," ">>), FALSE)
\* extern { #[cfi_encoding = "i"] type c_int; }
DefExtInt == Item(CrateA, <<TypeNs(<<"c","_","i","n","t">>)>>, Attr(<<"i">>), FALSE)
\* extern { #[cfi_encoding = " "] type Blank; }
DefExtBlank == Item(CrateA, <<TypeNs(<<"B","l","a","n","k">>)>>, Attr(<<" ">>), FALSE)
\* extern { type Ext; }
DefExt == Item(CrateA, <<TypeNs(<<"E","x","t">>)>>, NoAttr, FALSE)
\* struct Gen<const N: _>;
DefGen == Item(CrateA, <<TypeNs(<<"G","e","n">>)>>, NoAttr, FALSE)
\* #[repr(C)] struct Baz;
DefBaz == Item(CrateA, <<TypeNs(<<"B","a","z">>)>>, NoAttr, TRUE)

\* mod m { fn f() { || (); || () } }: the fn item and its second closure
DefFnF == Item(CrateA, <<TypeNs(<<"m">>), PathComp("ValueNs", <<"f">>, 0)>>, NoAttr, FALSE)
DefClosure ==
  Item(CrateA,
       <<TypeNs(<<"m">>), PathComp("ValueNs", <<"f">>, 0),
         PathComp("Closure", <<"{","{","c","l","o","s","u","r","e","}","}">>, 1)>>,
       NoAttr, FALSE)
\* The method foo of the third impl block of the crate.
DefMethod ==
  Item(CrateA,
       <<PathComp("Impl", <<"{","{","i","m","p","l","}","}">>, 2),
         PathComp("ValueNs", <<"f","o","o">>, 0)>>,
       NoAttr, FALSE)
\* mod m { struct _Priv; }
DefPriv == Item(CrateA, <<TypeNs(<<"m">>), TypeNs(<<"_","P","r","i","v">>)>>, NoAttr, FALSE)
\* A path component whose name starts with a digit.
DefDigit == Item(CrateA, <<TypeNs(<<"9","x">>)>>, NoAttr, FALSE)

\* A second crate, and its #[repr(C)] struct ffi::Foo.
CrateB == Crate(<<"o","t">>, 2)
DefFooB == Item(CrateB, <<TypeNs(<<"f","f","i">>), TypeNs(<<"F","o","o">>)>>, NoAttr, TRUE)
\* #[repr(C)] struct PairC<T>;
DefPairC == Item(CrateA, <<TypeNs(<<"P","a","i","r","C">>)>>, NoAttr, TRUE)
\* #[repr(C)] #[cfi_encoding = "3Qux"] struct Tagged;
DefTagged ==
  Item(CrateA, <<TypeNs(<<"T","a","g","g","e","d">>)>>, Attr(<<"3","Q","u","x">>), TRUE)

I32 == TInt("I32")
Foo == TAdt(DefFoo, <<>>)
Bad == TAdt(DefBad, <<>>)
CInt == TAdt(DefCInt, <<>>)
ExtInt == TForeign(DefExtInt)
ExtBlank == TForeign(DefExtBlank)
Ext == TForeign(DefExt)
\* Gen<{c}>
Gen(c) == TAdt(DefGen, <<ArgConst(c)>>)
\* Const values as their bits: 5, -5, i8::MAX, i8::MIN and i16::MIN; 0 and
\* u8::MAX; false and true; 'a'.
ConstsInt ==
  {ConstValue(TInt("I8"), 5), ConstValue(TInt("I8"), 251), ConstValue(TInt("I8"), 127),
   ConstValue(TInt("I8"), 128), ConstValue(TInt("I16"), 32768)}
ConstsUint == {ConstValue(TUint("U8"), 0), ConstValue(TUint("U8"), 255)}
ConstsBool == {ConstValue(TBool, 0), ConstValue(TBool, 1)}
ConstsChar == {ConstValue(TChar, 97)}
\* fn(Foo), the Rust ABI
FnFoo == TFnPtr(FnSig("Rust", TUnit, <<Foo>>, FALSE))
\* extern "C" fn(Foo)
FnFooC == TFnPtr(FnSig("C", TUnit, <<Foo>>, FALSE))
Baz == TAdt(DefBaz, <<>>)
DynTr == TDynamic(<<PredTrait(DefTr, <<>>)>>, ReErased, "Dyn")
\* m::Bar<dyn Tr, 1>
Bar == TAdt(DefBar, <<ArgType(DynTr), ArgConst(ConstValue(TUint("U8"), 1))>>)
\* extern "C" fn() -> *const Bad
FnBad == TFnPtr(FnSig("C", TRawPtr(Bad, FALSE), <<>>, FALSE))
\* (extern "C" fn() -> *const Bad, m::Bar<dyn Tr, 1>)
Sink == TTuple(<<FnBad, Bar>>)
\* ([i32; 1], .., [i32; MaxWide], [i32; 1], .., [i32; MaxWide])
Wide ==
  TTuple([i \in 1..(2 * MaxWide) |->
            TArray(I32, IF i <= MaxWide THEN i ELSE i - MaxWide)])

Direct(ty) == ArgAbi(ty, "Direct")
Ignore(ty) == ArgAbi(ty, "Ignore")

RECURSIVE SeqsUpTo(_, _)
\* The sequences over S of length at most len.
SeqsUpTo(S, len) ==
  IF len = 0 THEN {<<>>}
  ELSE LET shorter == SeqsUpTo(S, len - 1)
       IN shorter \cup {Append(q, x) : q \in shorter, x \in S}

\* The FnAbis over the given return types and ArgAbis: a signature that is
\* not C-variadic has fixed_count = args.len().
FnAbis(convs, rets, argabis) ==
  LET lists == SeqsUpTo(argabis, MaxArgs)
  IN {FnAbi(conv, Direct(ret), args, FALSE, Len(args)) :
        conv \in convs, ret \in rets, args \in lists}
     \cup
     UNION {{FnAbi(conv, Direct(ret), args, TRUE, fixed) : fixed \in 0..Len(args)} :
              conv \in convs, ret \in rets, args \in lists}

\* A method instance: the trait method, the concrete Self and the rest of
\* the signature after the receiver.
Instance(def, self_ty, output, inputs) ==
  [def |-> def, self_ty |-> self_ty, output |-> output, inputs |-> inputs]
NoInstance == [def |-> "none"]

\* The type that stands for Self when the self type is erased.
SelfSentinel(def) == TDynamic(<<PredTrait(def, <<>>)>>, ReErased, "Dyn")

\* The FnAbi of the method with its concrete Self, whatever the options.
fn_abi_of_instance_concrete(instance, o) ==
  LET args == <<Direct(TRef(ReErased, instance.self_ty, FALSE))>>
              \o [i \in 1..Len(instance.inputs) |-> Direct(instance.inputs[i])]
  IN FnAbi("Rust", Direct(instance.output), args, FALSE, Len(args))

\* The FnAbi typeid_for_instance computes for a method taking &self: Self is
\* kept with NO_SELF_TYPE_ERASURE and replaced by the sentinel without it.
fn_abi_of_instance(instance, o) ==
  LET self == IF NO_SELF_TYPE_ERASURE \in o THEN instance.self_ty
                                           ELSE SelfSentinel(instance.def)
      args == <<Direct(TRef(ReErased, self, FALSE))>>
              \o [i \in 1..Len(instance.inputs) |-> Direct(instance.inputs[i])]
  IN FnAbi("Rust", Direct(instance.output), args, FALSE, Len(args))

\* The entry points: each ends in a typeid_for_fnabi call with fn_abi and
\* options.
Input(fn_abi, o) ==
  [fn_abi |-> fn_abi, options |-> o, entry |-> "typeid_for_fnabi",
   instance |-> NoInstance]
KcfiInput(fn_abi, o) ==
  [fn_abi |-> fn_abi, options |-> o, entry |-> "kcfi_typeid_for_fnabi",
   instance |-> NoInstance]
InstanceInput(instance, o) ==
  [fn_abi |-> fn_abi_of_instance(instance, o), options |-> o,
   entry |-> "typeid_for_instance", instance |-> instance]
KcfiInstanceInput(instance, o) ==
  [fn_abi |-> fn_abi_of_instance(instance, o), options |-> o,
   entry |-> "kcfi_typeid_for_instance", instance |-> instance]
IsKcfi(in) == in.entry \in {"kcfi_typeid_for_fnabi", "kcfi_typeid_for_instance"}

\* Every option set, over signatures of few types.
InputsOptions ==
  {Input(f, o) :
     f \in FnAbis({"C", "Rust"}, {TUnit, I32},
                  {Direct(I32), Ignore(TUnit), Direct(Sink), Direct(TInfer)}),
     o \in TypeIdOptions}
  \cup {KcfiInput(FnAbi("Rust", Direct(I32), <<Direct(I32)>>, FALSE, 1), {})}

\* Inputs that between them reach every encoder function.
InputsKitchen ==
  {Input(FnAbi("C", Direct(FnBad), <<Ignore(TUnit), Direct(Bar)>>, FALSE, 2), {}),
   Input(FnAbi("Rust", Direct(TUnit), <<Direct(TInfer)>>, FALSE, 1), {}),
   KcfiInput(FnAbi("Rust", Direct(I32), <<Direct(I32)>>, FALSE, 1), {})}

\* One signature whose dictionary grows past 36 entries.
InputsWide ==
  {Input(FnAbi("Rust", Direct(I32), <<Direct(Wide)>>, FALSE, 1), {})} \cup InputsKitchen

\* extern "C" fn(Foo) and fn(Foo), with a skipped argument before it.
FnAbisFoo ==
  {FnAbi(conv, Direct(TUnit), <<Ignore(TUnit), Direct(Foo)>>, FALSE, 2) :
     conv \in {"C", "Rust"}}

\* What concurrent callers ask for: the same signatures under option sets
\* that differ in GENERALIZE_REPR_C.
InputsThreads ==
  {Input(f, o) : f \in FnAbisFoo, o \in {{}, {GENERALIZE_REPR_C}}} \cup InputsKitchen

\* Signatures in which one type occurs under several signatures' options.
InputsContext ==
  {Input(f, {}) :
     f \in FnAbis({"C", "Rust"}, {TUnit, Foo},
                  {Direct(Foo), Direct(FnFoo), Direct(TRef(ReErased, Foo, TRUE))})}
  \cup InputsKitchen

\* fn(i32) -> i32
FnI32 == TFnPtr(FnSig("Rust", I32, <<I32>>, FALSE))
\* Tr::method(&self) -> i32 for Self = i32 and Self = Foo
MethodOfI32 == Instance(DefTr, I32, I32, <<>>)
MethodOfFoo == Instance(DefTr, Foo, I32, <<>>)

\* What the KCFI callers ask for: fn(i32, ..) -> i32 with up to MaxArgs
\* parameters, with a skipped argument, with a fn pointer, and one method of
\* two impls, each as a String and as its hash.
InputsKcfi ==
  LET fn_abis ==
        {FnAbi("Rust", Direct(I32), args, FALSE, Len(args)) :
           args \in (SeqsUpTo({Direct(I32)}, MaxArgs) \ {<<>>})
                    \cup {<<Ignore(TUnit), Direct(I32)>>, <<Direct(FnI32), Direct(I32)>>}}
  IN {Input(f, {}) : f \in fn_abis}
     \cup {KcfiInput(f, o) : f \in fn_abis, o \in {{}, {NORMALIZE_INTEGERS}}}
     \cup {InstanceInput(i, {}) : i \in {MethodOfI32, MethodOfFoo}}
     \cup {KcfiInstanceInput(i, o) :
             i \in {MethodOfI32, MethodOfFoo}, o \in {{}, {NO_SELF_TYPE_ERASURE}}}
     \cup InputsKitchen

\* Signatures over types that carry a cfi_encoding attribute, and a foreign
\* type that carries none.
InputsOverrides ==
  {Input(f, {}) :
     f \in FnAbis({"Rust"}, {TUnit},
                  {Direct(CInt), Direct(ExtInt), Direct(Bad), Direct(ExtBlank),
                   Direct(Ext)})}
  \cup InputsKitchen

\* Signatures over a type with one const generic argument.
InputsConsts ==
  {Input(f, {}) :
     f \in FnAbis({"Rust"}, {TUnit},
                  {Direct(Gen(c)) :
                     c \in ConstsInt \cup ConstsUint \cup ConstsBool \cup ConstsChar})}
  \cup InputsKitchen

\* Signatures over a type and the pointers and references to it.
InputsPointers ==
  {Input(f, {}) :
     f \in FnAbis({"Rust"}, {TUnit},
                  {Direct(I32), Direct(TRawPtr(I32, FALSE)), Direct(TRawPtr(I32, TRUE)),
                   Direct(TRawPtr(TUnit, FALSE)), Direct(TRef(ReErased, I32, FALSE)),
                   Direct(TRef(ReErased, I32, TRUE))})}
  \cup InputsKitchen

\* Signatures over fn pointers of either ABI and #[repr(C)] structs, under
\* options that hold GENERALIZE_REPR_C and another bit or not.
InputsNested ==
  {Input(f, o) :
     f \in FnAbis({"C", "Rust"}, {TUnit},
                  {Direct(FnFoo), Direct(FnFooC), Direct(Foo), Direct(Baz)}),
     o \in {{}, {GENERALIZE_REPR_C}, {GENERALIZE_REPR_C, NORMALIZE_INTEGERS}}}
  \cup InputsKitchen

\* Signatures that return and pass i32 and types met only once, shallow and
\* deep ones.
InputsOrder ==
  {Input(f, {}) :
     f \in FnAbis({"Rust"}, {I32, TUnit},
                  {Direct(I32), Direct(Sink), Direct(TRawPtr(I32, FALSE))})}
  \cup InputsKitchen

\* Every option set, over signatures of a #[repr(C)] struct, a fn pointer
\* and a reference, none of them variadic.
InputsGrammar ==
  {Input(FnAbi(conv, Direct(TUnit), args, FALSE, Len(args)), o) :
     conv \in {"C", "Rust"},
     args \in SeqsUpTo({Direct(Foo), Direct(FnBad), Direct(TRef(ReErased, Foo, FALSE))},
                       MaxArgs),
     o \in TypeIdOptions}
  \cup InputsKitchen

\* Signatures over types that are encoded by their paths: paths of several
\* namespaces, with disambiguators, and names that start with '_' or a digit.
NamedTypes ==
  {TFnDef(DefFnF, <<>>), TClosure(DefClosure, <<>>), TFnDef(DefMethod, <<>>),
   TAdt(DefPriv, <<>>), TAdt(DefDigit, <<>>)}

InputsNames ==
  {Input(f, {}) : f \in FnAbis({"Rust"}, {TUnit}, {Direct(ty) : ty \in NamedTypes})}
  \cup InputsKitchen

\* ADTs with and without #[repr(C)], generic arguments and cfi_encoding,
\* called through the C and the Rust convention.
AdtTypes ==
  {Foo, TAdt(DefFooB, <<>>), TAdt(DefPairC, <<ArgType(I32)>>), TAdt(DefTagged, <<>>), Bar}

InputsAdts ==
  {Input(f, o) :
     f \in FnAbis({"C", "Rust"}, {TUnit}, {Direct(ty) : ty \in AdtTypes}),
     o \in {{}, {GENERALIZE_REPR_C}}}
  \cup InputsKitchen

\* Fn pointers with no parameter, with parameters of type () and with a
\* variadic tail.
FnPtrSamples ==
  {TFnPtr(FnSig("Rust", ret, ins, FALSE)) :
     ret \in {TUnit, I32}, ins \in {<<>>, <<TUnit>>, <<I32, TUnit>>}}
  \cup {TFnPtr(FnSig("C", TUnit, ins, FALSE)) : ins \in {<<>>, <<TUnit>>}}
  \cup {TFnPtr(FnSig("C", TUnit, ins, TRUE)) : ins \in {<<>>, <<I32>>}}

InputsFnSig ==
  {Input(f, {}) : f \in FnAbis({"Rust"}, {TUnit}, {Direct(ty) : ty \in FnPtrSamples})}
  \cup InputsKitchen

Inputs(w) ==
  CASE w = "options" -> InputsOptions
    [] w = "kcfi" -> InputsKcfi
    [] w = "wide" -> InputsWide
    [] w = "threads" -> InputsThreads
    [] w = "context" -> InputsContext
    [] w = "overrides" -> InputsOverrides
    [] w = "consts" -> InputsConsts
    [] w = "pointers" -> InputsPointers
    [] w = "nested" -> InputsNested
    [] w = "order" -> InputsOrder
    [] w = "grammar" -> InputsGrammar
    [] w = "names" -> InputsNames
    [] w = "adts" -> InputsAdts
    [] w = "fnsig" -> InputsFnSig

\* ------------------------------------------------------------------ xxHash64

\* The printable ASCII characters, from code 32 on; the double quote (34),
\* the backslash (92) and the backtick (96) are spelled out, no identifier
\* holds them.
Ascii ==
  <<" ", "!", "quote", "#", "$", "%", "&", "'", "(", ")", "*", "+", ",", "-", ".", "/",
    "0", "1", "2", "3", "4", "5", "6", "7", "8", "9", ":", ";", "<", "=", ">", "?",
    "@", "A", "B", "C", "D", "E", "F", "G", "H", "I", "J", "K", "L", "M", "N", "O",
    "P", "Q", "R", "S", "T", "U", "V", "W", "X", "Y", "Z", "[", "backslash", "]", "^", "_",
    "backtick", "a", "b", "c", "d", "e", "f", "g", "h", "i", "j", "k", "l", "m", "n", "o",
    "p", "q", "r", "s", "t", "u", "v", "w", "x", "y", "z", "{", "|", "}", "~">>

\* str.as_bytes(), for a String of ASCII characters.
as_bytes(s) ==
  SubSeq([i \in 1..Len(s) |-> 31 + (CHOOSE j \in 1..Len(Ascii) : Ascii[j] = s[i])],
         1, Len(s))

\* A u64 is kept as its eight bytes, least significant first.
PRIME64_1 == <<135, 202, 235, 133, 177, 121, 55, 158>>
PRIME64_2 == <<79, 235, 212, 39, 61, 174, 178, 194>>
PRIME64_3 == <<249, 121, 55, 158, 177, 103, 86, 22>>
PRIME64_4 == <<99, 174, 178, 194, 119, 202, 235, 133>>
PRIME64_5 == <<197, 103, 86, 22, 47, 235, 212, 39>>
Zero64 == <<0, 0, 0, 0, 0, 0, 0, 0>>
Ones64 == <<255, 255, 255, 255, 255, 255, 255, 255>>


\* The u64 of a small number.
U64(n) == <<n % 256, (n \div 256) % 256, (n \div 65536) % 256, 0, 0, 0, 0, 0>>

\* The u64 read little-endian from at most eight bytes.
ReadLE(bs) ==
  LET byte(i) == IF i <= Len(bs) THEN bs[i] ELSE 0
  IN <<byte(1), byte(2), byte(3), byte(4), byte(5), byte(6), byte(7), byte(8)>>

\* The operators on u64s compute on the values of their operands: a and b
\* below range over the one value an operand has.

\* The bytes of the eight column sums cols, each with the carry of the
\* column before.
Carry(cols) ==
  LET s1 == cols[1]
      s2 == cols[2] + (s1 \div 256)
      s3 == cols[3] + (s2 \div 256)
      s4 == cols[4] + (s3 \div 256)
      s5 == cols[5] + (s4 \div 256)
      s6 == cols[6] + (s5 \div 256)
      s7 == cols[7] + (s6 \div 256)
      s8 == cols[8] + (s7 \div 256)
  IN <<s1 % 256, s2 % 256, s3 % 256, s4 % 256, s5 % 256, s6 % 256, s7 % 256, s8 % 256>>

\* a.wrapping_add(b)
WrappingAdd(x, y) ==
  CHOOSE sum \in
    {Carry(<<a[1] + b[1], a[2] + b[2], a[3] + b[3], a[4] + b[4],
             a[5] + b[5], a[6] + b[6], a[7] + b[7], a[8] + b[8]>>) :
       a \in {x}, b \in {y}} : TRUE

RECURSIVE ColumnSum(_, _, _, _)
\* The sum of a[i] * b[k + 1 - i] for i in from..k.
ColumnSum(a, b, k, from) ==
  IF from > k THEN 0 ELSE a[from] * b[k + 1 - from] + ColumnSum(a, b, k, from + 1)

\* a.wrapping_mul(b)
WrappingMul(x, y) ==
  CHOOSE product \in
    {Carry(<<ColumnSum(a, b, 1, 1), ColumnSum(a, b, 2, 1), ColumnSum(a, b, 3, 1),
             ColumnSum(a, b, 4, 1), ColumnSum(a, b, 5, 1), ColumnSum(a, b, 6, 1),
             ColumnSum(a, b, 7, 1), ColumnSum(a, b, 8, 1)>>) :
       a \in {x}, b \in {y}} : TRUE

Pow2Small(n) == CASE n = 0 -> 1 [] n = 1 -> 2 [] n = 2 -> 4 [] n = 3 -> 8
                  [] n = 4 -> 16 [] n = 5 -> 32 [] n = 6 -> 64 [] n = 7 -> 128
                  [] n = 8 -> 256

\* a ^ b on bytes.
XorByte(a, b) ==
  LET bit(i) == (((a \div Pow2Small(i)) % 2) + ((b \div Pow2Small(i)) % 2)) % 2
  IN bit(0) + 2 * bit(1) + 4 * bit(2) + 8 * bit(3)
     + 16 * bit(4) + 32 * bit(5) + 64 * bit(6) + 128 * bit(7)

\* a ^ b
Xor64(x, y) ==
  CHOOSE xor \in
    {<<XorByte(a[1], b[1]), XorByte(a[2], b[2]), XorByte(a[3], b[3]),
       XorByte(a[4], b[4]), XorByte(a[5], b[5]), XorByte(a[6], b[6]),
       XorByte(a[7], b[7]), XorByte(a[8], b[8])>> :
       a \in {x}, b \in {y}} : TRUE

\* The byte of a.rotate_left(8 * q + b) at place i.
RotatedByte(a, q, b, i) ==
  ((a[((i - q - 1 + 8) % 8) + 1] * Pow2Small(b)) % 256)
  + (a[((i - q - 2 + 8) % 8) + 1] \div Pow2Small(8 - b))

\* a.rotate_left(r)
RotateLeft(x, r) ==
  CHOOSE rotated \in
    {<<RotatedByte(a, r \div 8, r % 8, 1), RotatedByte(a, r \div 8, r % 8, 2),
       RotatedByte(a, r \div 8, r % 8, 3), RotatedByte(a, r \div 8, r % 8, 4),
       RotatedByte(a, r \div 8, r % 8, 5), RotatedByte(a, r \div 8, r % 8, 6),
       RotatedByte(a, r \div 8, r % 8, 7), RotatedByte(a, r \div 8, r % 8, 8)>> :
       a \in {x}} : TRUE

\* The byte of a >> (8 * q + b) at place i; a is the eight bytes and a zero.
ShiftedByte(a, q, b, i) ==
  (a[IF i + q <= 8 THEN i + q ELSE 9] \div Pow2Small(b))
  + ((a[IF i + q + 1 <= 8 THEN i + q + 1 ELSE 9] * Pow2Small(8 - b)) % 256)

\* a >> r
ShiftRight(x, r) ==
  CHOOSE shifted \in
    {<<ShiftedByte(a, r \div 8, r % 8, 1), ShiftedByte(a, r \div 8, r % 8, 2),
       ShiftedByte(a, r \div 8, r % 8, 3), ShiftedByte(a, r \div 8, r % 8, 4),
       ShiftedByte(a, r \div 8, r % 8, 5), ShiftedByte(a, r \div 8, r % 8, 6),
       ShiftedByte(a, r \div 8, r % 8, 7), ShiftedByte(a, r \div 8, r % 8, 8)>> :
       a \in {Append(x, 0)}} : TRUE

\* One round of the accumulator.
Round(acc, input) ==
  WrappingMul(RotateLeft(WrappingAdd(acc, WrappingMul(input, PRIME64_2)), 31), PRIME64_1)

MergeRound(acc, val) ==
  WrappingAdd(WrappingMul(Xor64(acc, Round(Zero64, val)), PRIME64_1), PRIME64_4)

RECURSIVE Stripes(_, _)
\* The four accumulators after the 32-byte stripes of bs.
Stripes(v, bs) ==
  IF Len(bs) < 32 THEN v
  ELSE CHOOSE after \in
         {Stripes(next, SubSeq(bs, 33, Len(bs))) :
            next \in {<<Round(v[1], ReadLE(SubSeq(bs, 1, 8))),
                        Round(v[2], ReadLE(SubSeq(bs, 9, 16))),
                        Round(v[3], ReadLE(SubSeq(bs, 17, 24))),
                        Round(v[4], ReadLE(SubSeq(bs, 25, 32)))>>}} : TRUE

\* The bytes left after the stripes folded into h: the next eight, else the
\* next four, else the next one.
Fold(h, bs) ==
  IF Len(bs) >= 8
    THEN WrappingAdd(
           WrappingMul(RotateLeft(Xor64(h, Round(Zero64, ReadLE(SubSeq(bs, 1, 8)))), 27),
                       PRIME64_1),
           PRIME64_4)
  ELSE IF Len(bs) >= 4
    THEN WrappingAdd(
           WrappingMul(
             RotateLeft(Xor64(h, WrappingMul(ReadLE(SubSeq(bs, 1, 4)), PRIME64_1)), 23),
             PRIME64_2),
           PRIME64_3)
  ELSE WrappingMul(RotateLeft(Xor64(h, WrappingMul(ReadLE(<<bs[1]>>), PRIME64_5)), 11),
                   PRIME64_1)

RECURSIVE Finalize(_, _)
\* The bytes left after the stripes, folded into h: eight, four and one at a time.
Finalize(h, bs) ==
  IF bs = <<>> THEN h
  ELSE CHOOSE after \in
         {Finalize(next, SubSeq(bs, (IF Len(bs) >= 8 THEN 9 ELSE IF Len(bs) >= 4 THEN 5 ELSE 2),
                                Len(bs))) :
            next \in {Fold(h, bs)}} : TRUE

Avalanche(h0) ==
  CHOOSE h3 \in
    {Xor64(h2, ShiftRight(h2, 32)) :
       h2 \in {WrappingMul(Xor64(h1, ShiftRight(h1, 29)), PRIME64_3) :
                 h1 \in {WrappingMul(Xor64(h0, ShiftRight(h0, 33)), PRIME64_2)}}} : TRUE

\* The accumulators merged: what finish() starts from after whole stripes.
Merged(v) ==
  CHOOSE m4 \in
    {MergeRound(m3, v[4]) :
       m3 \in {MergeRound(m2, v[3]) :
                 m2 \in {MergeRound(m1, v[2]) :
                           m1 \in {MergeRound(m0, v[1]) :
                                     m0 \in {WrappingAdd(
                                               WrappingAdd(RotateLeft(v[1], 1),
                                                           RotateLeft(v[2], 7)),
                                               WrappingAdd(RotateLeft(v[3], 12),
                                                           RotateLeft(v[4], 18)))}}}}} : TRUE

\* XxHash64 with seed 0 (Default): write(bs), then finish().
XxHash64(bs) ==
  LET total == Len(bs)
      v0 == <<WrappingAdd(PRIME64_1, PRIME64_2), PRIME64_2, Zero64,
              WrappingAdd(Xor64(PRIME64_1, Ones64), U64(1))>>
      rest == SubSeq(bs, 32 * (total \div 32) + 1, total)
  IN CHOOSE hash \in
       {Avalanche(h) :
          h \in {Finalize(WrappingAdd(h0, U64(total)), rest) :
                   h0 \in {IF total >= 32 THEN Merged(v) ELSE PRIME64_5 :
                             v \in {Stripes(v0, bs)}}}} : TRUE

\* hash as u32: the four low bytes.
AsU32(h) == SubSeq(h, 1, 4)

\* A u32 read as an i32, the way the operand bundle prints it.
AsI32(w) ==
  IF w[4] < 128
    THEN w[1] + 256 * w[2] + 65536 * w[3] + 16777216 * w[4]
    ELSE -((255 - w[1]) + 256 * (255 - w[2]) + 65536 * (255 - w[3])
           + 16777216 * (255 - w[4])) - 1

\* The high half of the hash, (hash >> 32) as u32.
kcfi_typeid_high(typeid_) == SubSeq(XxHash64(as_bytes(typeid_)), 5, 8)

\* kcfi_typeid_for_fnabi, after its typeid_for_fnabi call returned typeid:
\* the hasher is fed the bytes of the String and its result is cast to u32.
kcfi_typeid_for_fnabi(typeid_) == AsU32(XxHash64(as_bytes(typeid_)))

\* kcfi_typeid_for_instance, after its typeid_for_instance call returned.
kcfi_typeid_for_instance(typeid_) == AsU32(XxHash64(as_bytes(typeid_)))

\* ------------------------------------------------------------------ state

Threads == 1..NThreads

VARIABLES
  workload,    \* which sampled inputs the callers of this run draw from
  pc,          \* per thread: "off", "idle", "args", "hash", "done" or "bug" (a panic)
  call,        \* per thread: the arguments of its typeid_for_fnabi call
  options,     \* per thread: the local `options` of typeid_for_fnabi
  dict,        \* per thread: the local `dict` of typeid_for_fnabi
  subst,       \* per thread: the String each dictionary index was inserted with
  stack,       \* per thread: the Strings under construction, typeid first
  todo,        \* per thread: what remains of the encoder calls in progress
  n,           \* per thread: the arguments of fn_abi.args gone through
  pushed_arg,  \* per thread: the local `pushed_arg`
  errors,      \* per thread: the diagnostics its call has emitted
  kcfi,        \* per thread: the u32 a kcfi_typeid_* call returned, or <<>>
  mir_pc,          \* where the caller of rewrite_receiver.rs is, "off" when there is none
  thin_ty,         \* the `ty` force_thin_self_ptr was called with
  receiver_layout, \* the local `receiver_layout` of force_thin_self_ptr (its type)
  body,            \* the Body that RewriteReceiver::run_pass rewrites
  original,        \* that Body as run_pass received it
  invoke_ty,       \* the field `invoke_ty` of the pass
  receiver,        \* the local `receiver` of run_pass
  cast_receiver    \* the local `cast_receiver` of run_pass

\* The state of the encoder and the state of rewrite_receiver.rs.
encvars == <<workload, pc, call, options, dict, subst, stack, todo, n, pushed_arg,
             errors, kcfi>>
mirvars == <<mir_pc, thin_ty, receiver_layout, body, original, invoke_ty, receiver,
             cast_receiver>>
vars == <<encvars, mirvars>>

\* A Body with the return place only.
NoBody ==
  [arg_count |-> 0, local_decls |-> <<[ty |-> TUnit, mutability |-> "Mut"]>>,
   basic_blocks |-> <<[statements |-> <<>>, terminator |-> [tk |-> "Return"]]>>,
   var_debug_info |-> <<>>]

NoCall == Input(FnAbi("Rust", Direct(TUnit), <<>>, FALSE, 0), {})

InitThreads(active) ==
  /\ pc = [t \in Threads |-> IF t \in active THEN "idle" ELSE "off"]
  /\ call = [t \in Threads |-> NoCall]
  /\ options = [t \in Threads |-> {}]
  /\ dict = [t \in Threads |-> EmptyDict]
  /\ subst = [t \in Threads |-> <<>>]
  /\ stack = [t \in Threads |-> <<>>]
  /\ todo = [t \in Threads |-> <<>>]
  /\ n = [t \in Threads |-> 0]
  /\ pushed_arg = [t \in Threads |-> FALSE]
  /\ errors = [t \in Threads |-> 0]
  /\ kcfi = [t \in Threads |-> <<>>]
  /\ mir_pc = IF active = {} THEN "idle" ELSE "off"
  /\ thin_ty = TUnit
  /\ receiver_layout = TUnit
  /\ body = NoBody
  /\ original = NoBody
  /\ invoke_ty = TUnit
  /\ receiver = 0
  /\ cast_receiver = 0

\* One compiler thread, every option set.
Init ==
  /\ workload = "options"
  /\ InitThreads({1})

\* The String typeid_for_fnabi is building (and returns).
typeid(t) == stack[t][1]

\* ------------------------------------------------------------------ typeid_for_fnabi

\* The dictionary of the thread's previous call, kept.
NewDict_kept(t) == dict[t]

\* A fresh dictionary for the call.
NewDict(t) == EmptyDict

\* GENERALIZE_REPR_C set for the C convention and otherwise left as passed.
ConvOptions_insert_only(conv, o) ==
  IF conv = "C" THEN o \cup {GENERALIZE_REPR_C} ELSE o

\* The options of the call: GENERALIZE_REPR_C follows fn_abi.conv alone.
ConvOptions(conv, o) ==
  IF conv = "C" THEN o \cup {GENERALIZE_REPR_C} ELSE o \ {GENERALIZE_REPR_C}

\* A thread may call: its first call, or in the concurrent workload any
\* call after one that has returned.
MayCall(t) == pc[t] = "idle" \/ (workload = "threads" /\ pc[t] = "done")

\* What thread t may ask for: the inputs that reach every encoder function
\* are asked for by the first thread only.
InputsOf(t) ==
  IF t = 1 THEN Inputs(workload) ELSE Inputs(workload) \ InputsKitchen

\* Entry of typeid_for_fnabi, up to the encode_ty call for the return type.
Call(t) ==
  /\ MayCall(t)
  /\ \E in \in InputsOf(t) :
       LET o == ConvOptions(in.fn_abi.conv, in.options)
       IN /\ call' = [call EXCEPT ![t] = in]
          /\ options' = [options EXCEPT ![t] = o]
          /\ todo' = [todo EXCEPT ![t] = <<CallTy(transform(o, in.fn_abi.ret.ty), o)>>]
  /\ stack' = [stack EXCEPT ![t] = << <<"_","Z","T","S","F">> >>]
  /\ dict' = [dict EXCEPT ![t] = NewDict(t)]
  /\ subst' = [subst EXCEPT ![t] = <<>>]
  /\ n' = [n EXCEPT ![t] = 0]
  /\ pushed_arg' = [pushed_arg EXCEPT ![t] = FALSE]
  /\ errors' = [errors EXCEPT ![t] = 0]
  /\ kcfi' = [kcfi EXCEPT ![t] = <<>>]
  /\ pc' = [pc EXCEPT ![t] = "args"]
  /\ UNCHANGED <<mirvars, workload>>

\* Every argument gone through, the variadic ones too.
ArgLimit_all(fn_abi) == Len(fn_abi.args)

\* The arguments the loops of typeid_for_fnabi go through.
ArgLimit(fn_abi) ==
  IF fn_abi.c_variadic THEN fn_abi.fixed_count ELSE Len(fn_abi.args)

AtArgs(t) == pc[t] = "args" /\ todo[t] = <<>>

\* The loop over the arguments without its advance.
EncodeArg_same_arg(t) ==
  LET fn_abi == call[t].fn_abi
      arg == fn_abi.args[n[t] + 1]
  IN /\ AtArgs(t)
     /\ n[t] < ArgLimit(fn_abi)
     /\ arg.mode # "Ignore"
     /\ pushed_arg' = [pushed_arg EXCEPT ![t] = TRUE]
     /\ todo' = [todo EXCEPT ![t] = <<CallTy(transform(options[t], arg.ty), options[t])>>]
     /\ UNCHANGED <<mirvars, workload, pc, call, options, dict, subst, stack, n, errors, kcfi>>

\* An argument that is passed: transform and encode it.
EncodeArg(t) ==
  LET fn_abi == call[t].fn_abi
      arg == fn_abi.args[n[t] + 1]
  IN /\ AtArgs(t)
     /\ n[t] < ArgLimit(fn_abi)
     /\ arg.mode # "Ignore"
     /\ n' = [n EXCEPT ![t] = @ + 1]
     /\ pushed_arg' = [pushed_arg EXCEPT ![t] = TRUE]
     /\ todo' = [todo EXCEPT ![t] = <<CallTy(transform(options[t], arg.ty), options[t])>>]
     /\ UNCHANGED <<mirvars, workload, pc, call, options, dict, subst, stack, errors, kcfi>>

\* An argument with PassMode::Ignore: filtered out (or `continue`).
SkipArg(t) ==
  LET fn_abi == call[t].fn_abi
      arg == fn_abi.args[n[t] + 1]
  IN /\ AtArgs(t)
     /\ n[t] < ArgLimit(fn_abi)
     /\ arg.mode = "Ignore"
     /\ n' = [n EXCEPT ![t] = @ + 1]
     /\ UNCHANGED <<mirvars, workload, pc, call, options, dict, subst, stack, todo,
                    pushed_arg, errors, kcfi>>

\* The closing "E" pushed in the branch that is not variadic only.
Tail_E_in_branch(fn_abi, o, pushed) ==
  (IF ~fn_abi.c_variadic
     THEN (IF ~pushed THEN <<"v">> ELSE <<>>) \o <<"E">>
     ELSE <<"z">>)
  \o (IF NORMALIZE_INTEGERS \in o
        THEN <<".","n","o","r","m","a","l","i","z","e","d">> ELSE <<>>)
  \o (IF GENERALIZE_POINTERS \in o
        THEN <<".","g","e","n","e","r","a","l","i","z","e","d">> ELSE <<>>)

\* The suffixes in the other order.
Tail_swapped(fn_abi, o, pushed) ==
  (IF ~fn_abi.c_variadic
     THEN (IF ~pushed THEN <<"v">> ELSE <<>>)
     ELSE <<"z">>)
  \o <<"E">>
  \o (IF GENERALIZE_POINTERS \in o
        THEN <<".","g","e","n","e","r","a","l","i","z","e","d">> ELSE <<>>)
  \o (IF NORMALIZE_INTEGERS \in o
        THEN <<".","n","o","r","m","a","l","i","z","e","d">> ELSE <<>>)

\* "v" for an empty argument list, as encode_fnsig has it, whatever was skipped.
Tail_void_if_no_args(fn_abi, o, pushed) ==
  (IF ~fn_abi.c_variadic
     THEN (IF fn_abi.args = <<>> THEN <<"v">> ELSE <<>>)
     ELSE <<"z">>)
  \o <<"E">>
  \o (IF NORMALIZE_INTEGERS \in o
        THEN <<".","n","o","r","m","a","l","i","z","e","d">> ELSE <<>>)
  \o (IF GENERALIZE_POINTERS \in o
        THEN <<".","g","e","n","e","r","a","l","i","z","e","d">> ELSE <<>>)

\* What follows the argument encodings: "v" or "z", the closing "E", the suffixes.
Tail_(fn_abi, o, pushed) ==
  (IF ~fn_abi.c_variadic
     THEN (IF ~pushed THEN <<"v">> ELSE <<>>)
     ELSE <<"z">>)
  \o <<"E">>
  \o (IF NORMALIZE_INTEGERS \in o
        THEN <<".","n","o","r","m","a","l","i","z","e","d">> ELSE <<>>)
  \o (IF GENERALIZE_POINTERS \in o
        THEN <<".","g","e","n","e","r","a","l","i","z","e","d">> ELSE <<>>)

\* After the loop: the rest of typeid_for_fnabi, and its return.
Finish(t) ==
  /\ AtArgs(t)
  /\ n[t] >= ArgLimit(call[t].fn_abi)
  /\ stack' = [stack EXCEPT ![t] =
                 <<typeid(t) \o Tail_(call[t].fn_abi, options[t], pushed_arg[t])>>]
  /\ pc' = [pc EXCEPT ![t] = IF IsKcfi(call[t]) THEN "hash" ELSE "done"]
  /\ UNCHANGED <<mirvars, workload, call, options, dict, subst, todo, n, pushed_arg, errors, kcfi>>

\* The rest of kcfi_typeid_for_fnabi or kcfi_typeid_for_instance: the
\* String the inner call returned is hashed and the low half is returned.
Hash(t) ==
  /\ pc[t] = "hash"
  /\ kcfi' = [kcfi EXCEPT ![t] =
               IF call[t].entry = "kcfi_typeid_for_fnabi"
                 THEN kcfi_typeid_for_fnabi(typeid(t))
                 ELSE kcfi_typeid_for_instance(typeid(t))]
  /\ pc' = [pc EXCEPT ![t] = "done"]
  /\ UNCHANGED <<mirvars, workload, call, options, dict, subst, stack, todo, n, pushed_arg,
                 errors>>

\* ------------------------------------------------------------------ encoder steps

Running(t, op) == pc[t] = "args" /\ todo[t] # <<>> /\ Head(todo[t]).op = op

\* A call of an encoder function: its String is created, its body is to run.
Enter(t, b) ==
  /\ stack' = [stack EXCEPT ![t] = Append(@, b.s)]
  /\ todo' = [todo EXCEPT ![t] = b.body \o Tail(@)]
  /\ UNCHANGED <<mirvars, workload, pc, call, options, dict, subst, n, pushed_arg, errors, kcfi>>

EncodeTy(t) ==
  /\ Running(t, "encode_ty")
  /\ Enter(t, encode_ty(Head(todo[t]).ty, Head(todo[t]).options))

EncodeFnSig(t) ==
  /\ Running(t, "encode_fnsig")
  /\ Enter(t, encode_fnsig(Head(todo[t]).sig, Head(todo[t]).options))

EncodeArgs(t) ==
  /\ Running(t, "encode_args")
  /\ Enter(t, encode_args(Head(todo[t]).args, Head(todo[t]).options))

EncodeConst(t) ==
  /\ Running(t, "encode_const")
  /\ Enter(t, encode_const(Head(todo[t]).const, Head(todo[t]).options))

EncodeRegion(t) ==
  /\ Running(t, "encode_region")
  /\ Enter(t, encode_region(Head(todo[t]).region))

EncodePredicates(t) ==
  /\ Running(t, "encode_predicates")
  /\ Enter(t, encode_predicates(Head(todo[t]).preds, Head(todo[t]).options))

EncodePredicate(t) ==
  /\ Running(t, "encode_predicate")
  /\ Enter(t, encode_predicate(Head(todo[t]).pred, Head(todo[t]).options))

\* The String of the call in progress.
Top(t) == stack[t][Len(stack[t])]
SetTop(t, str) == [stack EXCEPT ![t] = [@ EXCEPT ![Len(@)] = str]]

\* s.push_str(..), s.push(..), write!(s, ..)
PushStrStep(t) ==
  /\ Running(t, "push_str")
  /\ stack' = SetTop(t, Top(t) \o Head(todo[t]).s)
  /\ todo' = [todo EXCEPT ![t] = Tail(@)]
  /\ UNCHANGED <<mirvars, workload, pc, call, options, dict, subst, n, pushed_arg, errors, kcfi>>

\* s = format!("{}{}", "K", &s)
PrependStep(t) ==
  /\ Running(t, "prepend")
  /\ stack' = SetTop(t, Head(todo[t]).s \o Top(t))
  /\ todo' = [todo EXCEPT ![t] = Tail(@)]
  /\ UNCHANGED <<mirvars, workload, pc, call, options, dict, subst, n, pushed_arg, errors, kcfi>>

\* compress(dict, key, &mut s)
CompressStep(t) ==
  /\ Running(t, "compress")
  /\ LET r == compress(dict[t], Head(todo[t]).key, Top(t))
     IN /\ dict' = [dict EXCEPT ![t] = r.dict]
        /\ stack' = SetTop(t, r.comp)
        /\ subst' = [subst EXCEPT ![t] =
                       IF Head(todo[t]).key \in DOMAIN dict[t] THEN @ ELSE Append(@, Top(t))]
  /\ todo' = [todo EXCEPT ![t] = Tail(@)]
  /\ UNCHANGED <<mirvars, workload, pc, call, options, n, pushed_arg, errors, kcfi>>

\* tcx.dcx().struct_span_err(..).emit()
EmitErrStep(t) ==
  /\ Running(t, "emit_err")
  /\ errors' = [errors EXCEPT ![t] = @ + 1]
  /\ todo' = [todo EXCEPT ![t] = Tail(@)]
  /\ UNCHANGED <<mirvars, workload, pc, call, options, dict, subst, stack, n, pushed_arg, kcfi>>

\* bug!(..): the thread panics.
BugStep(t) ==
  /\ Running(t, "bug")
  /\ pc' = [pc EXCEPT ![t] = "bug"]
  /\ todo' = [todo EXCEPT ![t] = <<>>]
  /\ UNCHANGED <<mirvars, workload, call, options, dict, subst, stack, n, pushed_arg, errors, kcfi>>

\* A call returns its String and the caller appends it to its own.
Return(t) ==
  /\ Running(t, "return")
  /\ LET d == Len(stack[t])
     IN stack' = [stack EXCEPT ![t] =
                    Append(SubSeq(@, 1, d - 2), @[d - 1] \o @[d])]
  /\ todo' = [todo EXCEPT ![t] = Tail(@)]
  /\ UNCHANGED <<mirvars, workload, pc, call, options, dict, subst, n, pushed_arg, errors, kcfi>>

Next ==
  \E t \in Threads :
    \/ Call(t)
    \/ EncodeArg(t)
    \/ SkipArg(t)
    \/ Finish(t)
    \/ Hash(t)
    \/ EncodeTy(t)
    \/ EncodeFnSig(t)
    \/ EncodeArgs(t)
    \/ EncodeConst(t)
    \/ EncodeRegion(t)
    \/ EncodePredicates(t)
    \/ EncodePredicate(t)
    \/ PushStrStep(t)
    \/ PrependStep(t)
    \/ CompressStep(t)
    \/ EmitErrStep(t)
    \/ BugStep(t)
    \/ Return(t)

Spec == Init /\ [][Next]_vars

\* One compiler thread, a signature with a large dictionary.
InitWide ==
  /\ workload = "wide"
  /\ InitThreads({1})

SpecWide == InitWide /\ [][Next]_vars

TypeOK ==
  /\ \A t \in Threads : pc[t] \in {"off", "idle", "args", "hash", "done", "bug"}
  /\ \A t \in Threads : Len(subst[t]) = Cardinality(DOMAIN dict[t])

\* Every thread of the compiler calls, repeatedly.
InitThreadsAll ==
  /\ workload = "threads"
  /\ InitThreads(Threads)

SpecThreads == InitThreadsAll /\ [][Next]_vars

\* Two compiler threads, each making one call that may hash its result.
InitKcfi ==
  /\ workload = "kcfi"
  /\ InitThreads({1, 2})

SpecKcfi == InitKcfi /\ [][Next]_vars

\* One compiler thread, signatures nested in signatures.
InitContext ==
  /\ workload = "context"
  /\ InitThreads({1})

SpecContext == InitContext /\ [][Next]_vars

\* One compiler thread, signatures over types with a cfi_encoding attribute.
InitOverrides ==
  /\ workload = "overrides"
  /\ InitThreads({1})

SpecOverrides == InitOverrides /\ [][Next]_vars

\* One compiler thread, signatures over const generic arguments.
InitConsts ==
  /\ workload = "consts"
  /\ InitThreads({1})

SpecConsts == InitConsts /\ [][Next]_vars

\* One compiler thread, signatures over pointers and references.
InitPointers ==
  /\ workload = "pointers"
  /\ InitThreads({1})

SpecPointers == InitPointers /\ [][Next]_vars

\* One compiler thread, signatures over fn pointers.
InitNested ==
  /\ workload = "nested"
  /\ InitThreads({1})

SpecNested == InitNested /\ [][Next]_vars

\* One compiler thread, signatures that tell the order of the first visits.
InitOrder ==
  /\ workload = "order"
  /\ InitThreads({1})

SpecOrder == InitOrder /\ [][Next]_vars

\* What a thread does once it has been called: the next statement of its call.
Work(t) ==
  \/ EncodeArg(t)
  \/ SkipArg(t)
  \/ Finish(t)
  \/ Hash(t)
  \/ EncodeTy(t)
  \/ EncodeFnSig(t)
  \/ EncodeArgs(t)
  \/ EncodeConst(t)
  \/ EncodeRegion(t)
  \/ EncodePredicates(t)
  \/ EncodePredicate(t)
  \/ PushStrStep(t)
  \/ PrependStep(t)
  \/ CompressStep(t)
  \/ EmitErrStep(t)
  \/ BugStep(t)
  \/ Return(t)

\* The same callers, each call running on: a thread inside a call takes its
\* next step (the code has no wait, lock or yield).
SpecOrderFair == InitOrder /\ [][Next]_vars /\ \A t \in Threads : WF_vars(Work(t))

\* One compiler thread, every option set over types the options bear on.
InitGrammar ==
  /\ workload = "grammar"
  /\ InitThreads({1})

SpecGrammar == InitGrammar /\ [][Next]_vars

\* One compiler thread, signatures over types encoded by their paths.
InitNames ==
  /\ workload = "names"
  /\ InitThreads({1})

SpecNames == InitNames /\ [][Next]_vars

InitAdts ==
  /\ workload = "adts"
  /\ InitThreads({1})

SpecAdts == InitAdts /\ [][Next]_vars

InitFnSig ==
  /\ workload = "fnsig"
  /\ InitThreads({1})

SpecFnSig == InitFnSig /\ [][Next]_vars

\* ------------------------------------------------------------------ force_thin_self_ptr

\* A struct of the crate with the given field types, in declaration order.
StructItem(name, fields) ==
  [krate |-> CrateA, path |-> <<TypeNs(name)>>, cfi_encoding |-> NoAttr,
   repr_c |-> FALSE, fields |-> fields]
Struct(name, fields) == TAdt(StructItem(name, fields), <<>>)

\* ty.is_unsafe_ptr() and ty.is_ref()
is_unsafe_ptr(ty) == ty.kind = "RawPtr"
is_ref(ty) == ty.kind = "Ref"

\* The guard of the loop, negated: the receiver is a pointer or a ref already.
IsThin_raw_only(ty) == is_unsafe_ptr(ty)
IsThin(ty) == is_unsafe_ptr(ty) \/ is_ref(ty)

\* The fields of the layout of a type: the fields of a struct or a tuple,
\* the elements of an array, none of a primitive.
FieldsOf(ty) ==
  CASE ty.kind = "Adt" -> ty.def.fields
    [] ty.kind = "Tuple" -> ty.tys
    [] ty.kind = "Array" -> [i \in 1..ty.len |-> ty.ty]
    [] OTHER -> <<>>

RECURSIVE HasLayout(_)
\* cx.layout_of(ty) is Ok: nothing in the type is left to infer or substitute.
HasLayout(ty) ==
  /\ ty.kind \notin {"Param", "Infer"}
  /\ \A i \in 1..Len(FieldsOf(ty)) : HasLayout(FieldsOf(ty)[i])

RECURSIVE is_unsized(_)
\* layout.is_unsized(): a trait object, a str, a slice, or a struct or tuple
\* whose last field is one.
is_unsized(ty) ==
  CASE ty.kind \in {"Dynamic", "Str", "Slice"} -> TRUE
    [] ty.kind \in {"Adt", "Tuple"} ->
         FieldsOf(ty) # <<>> /\ is_unsized(FieldsOf(ty)[Len(FieldsOf(ty))])
    [] OTHER -> FALSE

RECURSIVE is_zst(_)
\* layout.is_zst(): sized and of size 0.
is_zst(ty) ==
  CASE ty.kind \in {"Adt", "Tuple"} ->
         ~is_unsized(ty) /\ \A i \in 1..Len(FieldsOf(ty)) : is_zst(FieldsOf(ty)[i])
    [] ty.kind = "Array" -> ty.len = 0 \/ is_zst(ty.ty)
    [] OTHER -> FALSE

RECURSIVE AlignOf(_)
\* layout.align.abi in bytes on a 64-bit target.
AlignOf(ty) ==
  LET fields == FieldsOf(ty)
      aligns == {AlignOf(fields[i]) : i \in 1..Len(fields)} \cup {1}
  IN CASE ty.kind \in {"Adt", "Tuple"} -> CHOOSE a \in aligns : \A b \in aligns : b <= a
       [] ty.kind = "Array" -> AlignOf(ty.ty)
       [] ty.kind \in {"Int", "Uint"} ->
            (CASE ty.w \in {"I8", "U8"} -> 1
               [] ty.w \in {"I16", "U16"} -> 2
               [] ty.w \in {"I32", "U32"} -> 4
               [] OTHER -> 8)
       [] ty.kind \in {"Bool", "Dynamic", "Str"} -> 1
       [] OTHER -> 8

\* layout.is_1zst()
is_1zst(ty) == is_zst(ty) /\ AlignOf(ty) = 1

RECURSIVE non_1zst_field_from(_, _, _)
\* The loop of TyAndLayout::non_1zst_field from field idx on, `found` being
\* <<>> or the one field found so far: a second one gives None.
non_1zst_field_from(ty, idx, found) ==
  IF idx > Len(FieldsOf(ty)) THEN found
  ELSE IF is_1zst(FieldsOf(ty)[idx]) THEN non_1zst_field_from(ty, idx + 1, found)
  ELSE IF found # <<>> THEN <<>>
  ELSE non_1zst_field_from(ty, idx + 1, <<FieldsOf(ty)[idx]>>)

\* layout.non_1zst_field(&cx): <<>> for None, <<field>> for Some((_, field)).
non_1zst_field(ty) == non_1zst_field_from(ty, 1, <<>>)

\* Receiver types: pointers and what is none, and structs and arrays around
\* them.
RefFoo == TRef(ReErased, Foo, FALSE)
PtrFoo == TRawPtr(Foo, FALSE)
PhantomData == Struct(<<"P","h","a","n","t","o","m","D","a","t","a">>, <<>>)
\* struct Pin<P> { pointer: P }
Pin(ty) == Struct(<<"P","i","n">>, <<ty>>)
\* struct Own<P> { ptr: P, _marker: PhantomData }
Own(ty) == Struct(<<"O","w","n">>, <<ty, PhantomData>>)
\* struct Aligned<P> { _align: [u64; 0], ptr: P }
Aligned(ty) == Struct(<<"A","l","i","g","n","e","d">>, <<TArray(TUint("U64"), 0), ty>>)
\* struct Pair<P> { a: P, b: P }
Pair(ty) == Struct(<<"P","a","i","r">>, <<ty, ty>>)

ReceiverLeaves ==
  {RefFoo, PtrFoo, TRef(ReErased, Foo, TRUE), TRawPtr(DynTr, TRUE), TRef(ReErased, DynTr, FALSE),
   I32, TUnit, FnFoo, DynTr, TSlice(I32), TParam}

RECURSIVE Receivers(_)
\* The leaves wrapped at most depth times; what is unsized is the last field
\* of a struct only.
Receivers(depth) ==
  IF depth = 0 THEN ReceiverLeaves
  ELSE LET inner == Receivers(depth - 1)
           sized == {ty \in inner : ~is_unsized(ty)}
       IN inner
          \cup {Pin(ty) : ty \in inner}
          \cup {Own(ty) : ty \in sized}
          \cup {Aligned(ty) : ty \in inner}
          \cup {Pair(ty) : ty \in sized}
          \cup {TArray(ty, 1) : ty \in sized}

\* force_thin_self_ptr(tcx, ty) up to the loop: the layout is computed and
\* must be sized.
ThinCall ==
  /\ mir_pc = "idle"
  /\ \E ty \in Receivers(MaxWrap) :
       /\ thin_ty' = ty
       /\ IF HasLayout(ty) /\ ~is_unsized(ty)
            THEN mir_pc' = "thin_loop" /\ receiver_layout' = ty
            ELSE mir_pc' = "thin_panic" /\ UNCHANGED receiver_layout
  /\ UNCHANGED <<encvars, body, original, invoke_ty, receiver, cast_receiver>>

\* One turn of the loop: the unique non-1-ZST field, or the `expect` panics.
ThinStep ==
  /\ mir_pc = "thin_loop"
  /\ ~IsThin(receiver_layout)
  /\ LET field == non_1zst_field(receiver_layout)
     IN IF field # <<>>
          THEN receiver_layout' = field[1] /\ UNCHANGED mir_pc
          ELSE mir_pc' = "thin_panic" /\ UNCHANGED receiver_layout
  /\ UNCHANGED <<encvars, thin_ty, body, original, invoke_ty, receiver, cast_receiver>>

\* The loop is left and receiver_layout.ty is returned.
ThinReturn ==
  /\ mir_pc = "thin_loop"
  /\ IsThin(receiver_layout)
  /\ mir_pc' = "thin_returned"
  /\ UNCHANGED <<encvars, thin_ty, receiver_layout, body, original, invoke_ty, receiver,
                 cast_receiver>>

\* ------------------------------------------------------------------ RewriteReceiver

\* MIR: a Local is its index (0 is the return place), local_decls[l + 1] is
\* the declaration of local l.
LocalDecl(ty, mutability) == [ty |-> ty, mutability |-> mutability]
Deref == [pe |-> "Deref"]
Place(local, projection) == [local |-> local, projection |-> projection]
PlaceFrom(local) == Place(local, <<>>)
Copy(place) == [op |-> "Copy", place |-> place]
Move(place) == [op |-> "Move", place |-> place]
Constant == [op |-> "Constant"]
Use(operand) == [rv |-> "Use", operand |-> operand]
Cast(kind, operand, ty) == [rv |-> "Cast", kind |-> kind, operand |-> operand, ty |-> ty]
Assign(place, rvalue) == [sk |-> "Assign", place |-> place, rvalue |-> rvalue]
StorageLive(local) == [sk |-> "StorageLive", local |-> local]
Return_ == [tk |-> "Return"]
Goto(target) == [tk |-> "Goto", target |-> target]
CallTerm(args, destination, target) ==
  [tk |-> "Call", func |-> Constant, args |-> args, destination |-> destination,
   target |-> target]
Block(statements, terminator) == [statements |-> statements, terminator |-> terminator]
VarDebugInfo(name, place) == [name |-> name, place |-> place]

\* A use of a local that names no local at all.
visit_local_keep(self, local) == local

\* RewriteLocal::visit_local
visit_local(self, local) == IF self.source = local THEN self.target ELSE local

\* MutVisitor's walk of a Body, down to visit_local: places (their local),
\* operands, rvalues, statements, terminators and the debug info.
visit_place(self, place) == [place EXCEPT !.local = visit_local(self, place.local)]
visit_operand(self, operand) ==
  IF operand.op = "Constant" THEN operand
  ELSE [operand EXCEPT !.place = visit_place(self, operand.place)]
visit_rvalue(self, rvalue) ==
  [rvalue EXCEPT !.operand = visit_operand(self, rvalue.operand)]
visit_statement(self, statement) ==
  CASE statement.sk = "Assign" ->
         [statement EXCEPT !.place = visit_place(self, statement.place),
                           !.rvalue = visit_rvalue(self, statement.rvalue)]
    [] statement.sk = "StorageLive" ->
         [statement EXCEPT !.local = visit_local(self, statement.local)]
visit_terminator(self, terminator) ==
  IF terminator.tk = "Call"
    THEN [terminator EXCEPT
            !.args = [i \in 1..Len(terminator.args) |->
                        visit_operand(self, terminator.args[i])],
            !.destination = visit_place(self, terminator.destination)]
    ELSE terminator
visit_basic_block_data(self, data) ==
  Block([i \in 1..Len(data.statements) |-> visit_statement(self, data.statements[i])],
        visit_terminator(self, data.terminator))
visit_body(self, b) ==
  [b EXCEPT
     !.basic_blocks = [i \in 1..Len(b.basic_blocks) |->
                         visit_basic_block_data(self, b.basic_blocks[i])],
     !.var_debug_info = [i \in 1..Len(b.var_debug_info) |->
                           [b.var_debug_info[i] EXCEPT !.place = visit_place(self, @)]]]

START_BLOCK == 1

\* Bodies of args arguments and one temporary: the temporary is the local
\* after the arguments, the receiver (if any) is local 1.
StatementsOver(args) ==
  LET tmp == args + 1
  IN {Assign(PlaceFrom(tmp), Use(Copy(PlaceFrom(1)))),
      Assign(Place(1, <<Deref>>), Use(Constant)),
      Assign(PlaceFrom(0), Use(Move(Place(1, <<Deref>>)))),
      StorageLive(tmp)}

BodiesOf(args) ==
  {[arg_count |-> args,
    local_decls |->
      [l \in 1..(args + 2) |->
         IF l = 2 /\ args > 0 THEN LocalDecl(recv, mutability) ELSE LocalDecl(I32, "Mut")],
    basic_blocks |-> <<Block(stmts, term), Block(rest, Return_)>>,
    var_debug_info |-> debug] :
     recv \in {RefFoo, Pin(RefFoo)},
     mutability \in {"Mut", "Not"},
     stmts \in SeqsUpTo(StatementsOver(args), MaxStmts),
     term \in {Goto(2), CallTerm(<<Move(PlaceFrom(1))>>, PlaceFrom(0), 2)},
     rest \in {<<>>, <<Assign(PlaceFrom(0), Use(Copy(PlaceFrom(1))))>>},
     debug \in {<<>>, <<VarDebugInfo("self", PlaceFrom(1))>>}}

Bodies == UNION {BodiesOf(args) : args \in 0..MaxArgs}

\* run_pass up to line 67: the first argument, or the `expect` panics.
PassCall ==
  /\ mir_pc = "idle"
  /\ \E b \in Bodies, ty \in {PtrFoo, TRawPtr(DynTr, FALSE)} :
       /\ body' = b
       /\ original' = b
       /\ invoke_ty' = ty
       /\ IF b.arg_count > 0
            THEN mir_pc' = "pass_receiver" /\ receiver' = 1
            ELSE mir_pc' = "pass_panic" /\ UNCHANGED receiver
  /\ UNCHANGED <<encvars, thin_ty, receiver_layout, cast_receiver>>

\* Line 68: local_decls.push of a clone of the receiver's declaration.
PassPush ==
  /\ mir_pc = "pass_receiver"
  /\ cast_receiver' = Len(body.local_decls)
  /\ body' = [body EXCEPT !.local_decls = Append(@, @[receiver + 1])]
  /\ mir_pc' = "pass_pushed"
  /\ UNCHANGED <<encvars, thin_ty, receiver_layout, original, invoke_ty, receiver>>

\* Lines 69 and 70: the receiver's declaration takes invoke_ty and Not.
PassRetype ==
  /\ mir_pc = "pass_pushed"
  /\ body' = [body EXCEPT !.local_decls[receiver + 1] = LocalDecl(invoke_ty, "Not")]
  /\ mir_pc' = "pass_retyped"
  /\ UNCHANGED <<encvars, thin_ty, receiver_layout, original, invoke_ty, receiver,
                 cast_receiver>>

\* Line 71: RewriteLocal { source: receiver, target: cast_receiver }.visit_body
PassVisit ==
  /\ mir_pc = "pass_retyped"
  /\ body' = visit_body([source |-> receiver, target |-> cast_receiver], body)
  /\ mir_pc' = "pass_visited"
  /\ UNCHANGED <<encvars, thin_ty, receiver_layout, original, invoke_ty, receiver,
                 cast_receiver>>

\* Lines 72 to 85: the transmute is inserted before the statements of the
\* start block.
PassInsert ==
  /\ mir_pc = "pass_visited"
  /\ body' = [body EXCEPT
                !.basic_blocks[START_BLOCK].statements =
                   <<Assign(PlaceFrom(cast_receiver),
                            Cast("Transmute", Move(PlaceFrom(receiver)),
                                 body.local_decls[cast_receiver + 1].ty))>> \o @]
  /\ mir_pc' = "pass_done"
  /\ UNCHANGED <<encvars, thin_ty, receiver_layout, original, invoke_ty, receiver,
                 cast_receiver>>

\* What a caller of rewrite_receiver.rs does: one call of either function.
NextReceiver ==
  \/ ThinCall
  \/ ThinStep
  \/ ThinReturn
  \/ PassCall
  \/ PassPush
  \/ PassRetype
  \/ PassVisit
  \/ PassInsert

\* No encoder thread; one caller of rewrite_receiver.rs.
InitReceiver ==
  /\ workload = "receiver"
  /\ InitThreads({})

SpecReceiver == InitReceiver /\ [][NextReceiver]_vars

\* ------------------------------------------------------------------ compress

\* Thread t takes a compress step.
CompressBy(t) == Running(t, "compress") /\ todo'[t] = Tail(todo[t])
CompressKey(t) == Head(todo[t]).key
CompressHit(t) == CompressBy(t) /\ CompressKey(t) \in DOMAIN dict[t]
CompressMiss(t) == CompressBy(t) /\ CompressKey(t) \notin DOMAIN dict[t]

\* C1: compress has exactly two outcomes. A key already in the dictionary:
\* the String becomes "S" + seq_id(index) + "_" and the dictionary is as it
\* was. A key not in it: the key is inserted with the size before the
\* insertion as its value, nothing else of the dictionary changes, and the
\* String is as it was.
C1_CompressOutcomes ==
  [][\A t \in Threads :
       /\ CompressHit(t) =>
            /\ Top(t)' = <<"S">> \o to_seq_id(dict[t][CompressKey(t)]) \o <<"_">>
            /\ dict'[t] = dict[t]
       /\ CompressMiss(t) =>
            /\ DOMAIN dict'[t] = DOMAIN dict[t] \cup {CompressKey(t)}
            /\ dict'[t][CompressKey(t)] = Cardinality(DOMAIN dict[t])
            /\ \A k \in DOMAIN dict[t] : dict'[t][k] = dict[t][k]
            /\ Top(t)' = Top(t)]_vars

\* A String longer than a back-reference has been replaced by one, in a
\* dictionary that insertions filled.
C1_Witness ==
  \E t \in Threads :
    /\ pc[t] = "args"
    /\ Cardinality(DOMAIN dict[t]) >= 2
    /\ Len(stack[t]) >= 2
    /\ Top(t) = <<"S", "_">>

\* C2: in the dictionary of one encoding a key is inserted at most once, its
\* value never changes afterwards, and the values of a dictionary of size n
\* are the n integers 0..n-1, one per key, in order of insertion.
C2_IndicesDense ==
  \A t \in Threads :
    /\ {dict[t][k] : k \in DOMAIN dict[t]} = 0..(Cardinality(DOMAIN dict[t]) - 1)
    /\ \A k1, k2 \in DOMAIN dict[t] : dict[t][k1] = dict[t][k2] => k1 = k2

C2_IndicesStable ==
  \A t \in Threads :
    pc[t] = "args" =>
      /\ \A k \in DOMAIN dict[t] : k \in DOMAIN dict'[t] /\ dict'[t][k] = dict[t][k]
      /\ \A k \in DOMAIN dict'[t] \ DOMAIN dict[t] :
           /\ dict'[t][k] = Cardinality(DOMAIN dict[t])
           /\ Cardinality(DOMAIN dict'[t]) = Cardinality(DOMAIN dict[t]) + 1

\* C2: the indices of every dictionary are dense and one per key in every
\* state, and every step of an encoding keeps the keys and values it found
\* and adds at most one key, at the next index.
C2_DictionaryIndices == []C2_IndicesDense /\ [][C2_IndicesStable]_vars

\* An encoding has ended with several keys in its dictionary, after a
\* back-reference to one of them.
C2_Witness ==
  \E t \in Threads :
    /\ pc[t] = "done"
    /\ Cardinality(DOMAIN dict[t]) >= 3
    /\ Count(typeid(t), <<"S", "_">>) >= 1

\* ------------------------------------------------------------------ seq-id

\* The digits of an Itanium <seq-id>.
SeqIdDigits == Digits \o Upper

\* i in base 36, for i below 36 * 36.
Base36(i) ==
  IF i < 36 THEN <<SeqIdDigits[i + 1]>>
            ELSE <<SeqIdDigits[(i \div 36) + 1], SeqIdDigits[(i % 36) + 1]>>

\* The back-reference of dictionary index i.
BackRef(i) == IF i = 0 THEN <<"S", "_">> ELSE <<"S">> \o Base36(i - 1) \o <<"_">>

\* C3: the back-reference emitted for a key stored at index i is "S_" for
\* i = 0 (the seq-id of 0 is empty) and otherwise "S", i-1 in base 36 with
\* uppercase letters, "_"; the back-references of the keys of one dictionary
\* are pairwise distinct.
C3_BackRefEmitted ==
  \A t \in Threads :
    CompressHit(t) => Top(t)' = BackRef(dict[t][CompressKey(t)])

C3_BackRefDistinct ==
  \A t \in Threads :
    \A k1, k2 \in DOMAIN dict[t] :
      k1 # k2 => compress(dict[t], k1, <<>>).comp # compress(dict[t], k2, <<>>).comp

\* C3: every back-reference emitted is the one of its index, and the
\* back-references of one dictionary are distinct in every state.
C3_SeqId == []C3_BackRefDistinct /\ [][C3_BackRefEmitted]_vars

\* A back-reference with a two-digit seq-id has been emitted.
C3_Witness ==
  \E t \in Threads :
    /\ pc[t] = "args"
    /\ Len(stack[t]) >= 2
    /\ Top(t) = <<"S", "1", "0", "_">>
    /\ Cardinality(DOMAIN dict[t]) > 37

\* ------------------------------------------------------------------ whole calls

\* The encoder function an instruction calls.
BodyOf(i) ==
  CASE i.op = "encode_ty" -> encode_ty(i.ty, i.options)
    [] i.op = "encode_fnsig" -> encode_fnsig(i.sig, i.options)
    [] i.op = "encode_args" -> encode_args(i.args, i.options)
    [] i.op = "encode_const" -> encode_const(i.const, i.options)
    [] i.op = "encode_region" -> encode_region(i.region)
    [] i.op = "encode_predicates" -> encode_predicates(i.preds, i.options)
    [] i.op = "encode_predicate" -> encode_predicate(i.pred, i.options)

IsCall(i) ==
  i.op \in {"encode_ty", "encode_fnsig", "encode_args", "encode_const",
            "encode_region", "encode_predicates", "encode_predicate"}

\* One instruction of the thread that holds the Strings c.stack, the
\* instructions c.todo and the dictionary c.dict; with compression off a
\* compress call does nothing. A thread that has ended stays as it is.
RunStep(c, compression) ==
  IF c.todo = <<>> \/ ~c.ok THEN c
  ELSE
    LET i == Head(c.todo)
        stk == c.stack
        depth == Len(stk)
        top == stk[depth]
        set(str) == [stk EXCEPT ![depth] = str]
        go(s, dd) == [stack |-> s, todo |-> Tail(c.todo), dict |-> dd, ok |-> TRUE]
    IN CASE IsCall(i) ->
              [stack |-> Append(stk, BodyOf(i).s), todo |-> BodyOf(i).body \o Tail(c.todo),
               dict |-> c.dict, ok |-> TRUE]
         [] i.op = "push_str" -> go(set(top \o i.s), c.dict)
         [] i.op = "prepend" -> go(set(i.s \o top), c.dict)
         [] i.op = "compress" ->
              IF compression
                THEN LET r == compress(c.dict, i.key, top) IN go(set(r.comp), r.dict)
                ELSE go(stk, c.dict)
         [] i.op = "emit_err" -> go(stk, c.dict)
         [] i.op = "return" ->
              go(Append(SubSeq(stk, 1, depth - 2), stk[depth - 1] \o top), c.dict)
         [] i.op = "bug" -> [c EXCEPT !.ok = FALSE]

RECURSIVE RunSteps(_, _, _)
\* num instructions, one after the other.
RunSteps(c, num, compression) ==
  IF num = 1 THEN RunStep(c, compression)
  ELSE CHOOSE end \in
         {RunSteps(half, num - (num \div 2), compression) :
            half \in {RunSteps(c, num \div 2, compression)}} : TRUE

RECURSIVE RunFrom(_, _, _)
\* The instructions run to their end, num of them and then twice as many
\* at a time.
RunFrom(c, num, compression) ==
  IF c.todo = <<>> \/ ~c.ok THEN c
  ELSE CHOOSE end \in
         {RunFrom(nxt, 2 * num, compression) :
            nxt \in {RunSteps(c, num, compression)}} : TRUE

\* The instructions td run to their end from the Strings stk and the
\* dictionary d, as one thread runs them alone; a bug! ends the run.
Run(stk, td, d, compression) ==
  LET end == RunFrom([stack |-> stk, todo |-> td, dict |-> d, ok |-> TRUE], 1, compression)
  IN [stack |-> end.stack, dict |-> end.dict, ok |-> end.ok]

\* GENERALIZE_REPR_C as the convention of the signature dictates it.
Effective(in) ==
  IF in.fn_abi.conv = "C" THEN in.options \cup {GENERALIZE_REPR_C}
                          ELSE in.options \ {GENERALIZE_REPR_C}

\* The encodings, one after the other and under one dictionary, of the
\* given types of a call (each transformed first).
EncodeAll(in, tys, compression) ==
  LET o == Effective(in)
  IN Run(<< <<>> >>, [j \in 1..Len(tys) |-> CallTy(transform(o, tys[j]), o)],
         EmptyDict, compression).stack[1]

RECURSIVE Passed(_, _)
\* The types of the first `limit` arguments that are not PassMode::Ignore.
Passed(args, limit) ==
  IF limit = 0 THEN <<>>
  ELSE LET before == Passed(args, limit - 1)
       IN IF args[limit].mode = "Ignore" THEN before ELSE Append(before, args[limit].ty)

Prefix == <<"_","Z","T","S","F">>
DotNormalized == <<".","n","o","r","m","a","l","i","z","e","d">>
DotGeneralized == <<".","g","e","n","e","r","a","l","i","z","e","d">>

\* The suffixes of an option set.
Suffixes(o) ==
  (IF NORMALIZE_INTEGERS \in o THEN DotNormalized ELSE <<>>)
  \o (IF GENERALIZE_POINTERS \in o THEN DotGeneralized ELSE <<>>)

\* A result without its suffixes, whichever it has.
StripSuffixes(s) ==
  LET g == IF EndsWith(s, DotGeneralized) THEN DropSuffix(s, DotGeneralized) ELSE s
  IN IF EndsWith(g, DotNormalized) THEN DropSuffix(g, DotNormalized) ELSE g

Done(t) == pc[t] = "done"

\* The arguments of a call that are encoded.
PassedOf(in) ==
  Passed(in.fn_abi.args,
         IF in.fn_abi.c_variadic THEN in.fn_abi.fixed_count ELSE Len(in.fn_abi.args))

\* What closes the parameter section.
Marker(in) ==
  IF in.fn_abi.c_variadic THEN <<"z">>
  ELSE IF PassedOf(in) = <<>> THEN <<"v">> ELSE <<>>

\* The identifier of a call as a function of its arguments alone: the return
\* type and then the encoded arguments under one dictionary that starts empty.
TypeidOf(in, compression) ==
  Prefix \o EncodeAll(in, <<in.fn_abi.ret.ty>> \o PassedOf(in), compression)
  \o Marker(in) \o <<"E">> \o Suffixes(in.options)

\* C4: the String a call returns is a function of (fn_abi, options) alone:
\* whatever calls the thread completed before and whatever the other threads
\* are doing, it is the identifier computed from an empty dictionary, so two
\* calls with the same arguments return the same String.
C4_Deterministic ==
  \A t \in Threads :
    Done(t) =>
      /\ typeid(t) = TypeidOf(call[t], TRUE)
      /\ \A u \in Threads : Done(u) /\ call[u] = call[t] => typeid(u) = typeid(t)

\* Two threads have returned from calls with the same arguments, whose
\* dictionary held entries, while no thread is idle any more.
C4_Witness ==
  \E t, u \in Threads :
    /\ t # u
    /\ Done(t) /\ Done(u)
    /\ call[t] = call[u]
    /\ Cardinality(DOMAIN dict[t]) >= 1

\* C5: every returned String starts with "_ZTSF", then has the encoding of
\* the return type, and without its suffixes ends with "E".
C5_Shape ==
  \A t \in Threads :
    Done(t) =>
      /\ StartsWith(typeid(t), Prefix)
      /\ StartsWith(typeid(t), Prefix \o EncodeAll(call[t], <<call[t].fn_abi.ret.ty>>, TRUE))
      /\ EndsWith(StripSuffixes(typeid(t)), <<"E">>)

\* A C-variadic call with both suffixes and an encoded argument has returned.
C5_Witness ==
  \E t \in Threads :
    /\ Done(t)
    /\ call[t].fn_abi.c_variadic
    /\ call[t].fn_abi.ret.ty = I32
    /\ PassedOf(call[t]) # <<>>
    /\ {NORMALIZE_INTEGERS, GENERALIZE_POINTERS} \subseteq call[t].options

\* C6 as stated: the result ends with ".normalized" iff NORMALIZE_INTEGERS is
\* set, ends with ".generalized" iff GENERALIZE_POINTERS is set, and with both
\* set holds ".normalized.generalized" exactly once.
C6_AsStated ==
  \A t \in Threads :
    Done(t) =>
      /\ EndsWith(typeid(t), DotNormalized) <=> NORMALIZE_INTEGERS \in call[t].options
      /\ EndsWith(typeid(t), DotGeneralized) <=> GENERALIZE_POINTERS \in call[t].options
      /\ {NORMALIZE_INTEGERS, GENERALIZE_POINTERS} \subseteq call[t].options
           => Count(typeid(t), DotNormalized \o DotGeneralized) = 1

\* C6: the result ends with ".generalized" iff GENERALIZE_POINTERS is set;
\* with a trailing ".generalized" removed it ends with ".normalized" iff
\* NORMALIZE_INTEGERS is set; so with both set it ends with the closing "E"
\* followed by ".normalized.generalized", each suffix once and in that order.
C6_Suffixes ==
  \A t \in Threads :
    Done(t) =>
      LET s == typeid(t)
          core == IF EndsWith(s, DotGeneralized) THEN DropSuffix(s, DotGeneralized) ELSE s
      IN /\ EndsWith(s, DotGeneralized) <=> GENERALIZE_POINTERS \in call[t].options
         /\ EndsWith(core, DotNormalized) <=> NORMALIZE_INTEGERS \in call[t].options
         /\ {NORMALIZE_INTEGERS, GENERALIZE_POINTERS} \subseteq call[t].options
              => EndsWith(s, <<"E">> \o DotNormalized \o DotGeneralized)

\* A call with both bits set has returned.
C6_Witness ==
  \E t \in Threads :
    /\ Done(t)
    /\ {NORMALIZE_INTEGERS, GENERALIZE_POINTERS} \subseteq call[t].options
    /\ EndsWith(typeid(t), DotGeneralized)

\* C7: for a fn_abi that is not C-variadic the result is "_ZTSF", the
\* encodings of the return type and of exactly the arguments whose mode is
\* not Ignore, in declaration order, then "v" exactly when no argument was
\* encoded, then "E" and the suffixes.
C7_NonVariadic ==
  \A t \in Threads :
    Done(t) /\ ~call[t].fn_abi.c_variadic =>
      LET in == call[t]
          passed == Passed(in.fn_abi.args, Len(in.fn_abi.args))
      IN typeid(t) =
           Prefix \o EncodeAll(in, <<in.fn_abi.ret.ty>> \o passed, TRUE)
           \o (IF passed = <<>> THEN <<"v">> ELSE <<>>)
           \o <<"E">> \o Suffixes(in.options)

\* A call that is not variadic has returned: its argument list is not
\* empty, an argument was skipped and none was encoded.
C7_Witness ==
  \E t \in Threads :
    /\ Done(t)
    /\ ~call[t].fn_abi.c_variadic
    /\ Len(call[t].fn_abi.args) = MaxArgs
    /\ \A j \in 1..MaxArgs : call[t].fn_abi.args[j].mode = "Ignore"
    /\ typeid(t) = Prefix \o <<"v", "v", "E">>

\* C8: for a C-variadic fn_abi the result is "_ZTSF", the encodings of the
\* return type and of the arguments among the first fixed_count whose mode
\* is not Ignore, then "z", "E" and the suffixes: no argument from index
\* fixed_count on is encoded and no "v" marks an empty parameter section.
C8_Variadic ==
  \A t \in Threads :
    Done(t) /\ call[t].fn_abi.c_variadic =>
      LET in == call[t]
          passed == Passed(in.fn_abi.args, in.fn_abi.fixed_count)
      IN typeid(t) =
           Prefix \o EncodeAll(in, <<in.fn_abi.ret.ty>> \o passed, TRUE)
           \o <<"z", "E">> \o Suffixes(in.options)

\* A C-variadic call has returned that has a passed argument after its fixed
\* ones and encoded none.
C8_Witness ==
  \E t \in Threads :
    /\ Done(t)
    /\ call[t].fn_abi.c_variadic
    /\ call[t].fn_abi.fixed_count < Len(call[t].fn_abi.args)
    /\ call[t].fn_abi.args[Len(call[t].fn_abi.args)].mode # "Ignore"
    /\ typeid(t) = Prefix \o <<"v", "z", "E">>

\* C9: two calls whose arguments differ at most in the GENERALIZE_REPR_C bit
\* of options return the same String.
C9_ReprCBitIgnored ==
  \A t, u \in Threads :
    /\ Done(t) /\ Done(u)
    /\ call[t].fn_abi = call[u].fn_abi
    /\ call[t].options \ {GENERALIZE_REPR_C} = call[u].options \ {GENERALIZE_REPR_C}
    => typeid(t) = typeid(u)

\* Two calls for fn(Foo), not the C convention, have returned: one was
\* passed GENERALIZE_REPR_C and the other was not.
C9_Witness ==
  \E t, u \in Threads :
    /\ Done(t) /\ Done(u)
    /\ call[t].fn_abi = call[u].fn_abi
    /\ call[t].fn_abi.conv = "Rust"
    /\ PassedOf(call[t]) = <<Foo>>
    /\ call[t].options = {GENERALIZE_REPR_C}
    /\ call[u].options = {}

\* ------------------------------------------------------------------ fidelity

RECURSIVE Value36(_)
\* The number a <seq-id> denotes.
Value36(id) ==
  IF id = <<>> THEN 0
  ELSE 36 * Value36(SubSeq(id, 1, Len(id) - 1))
       + (CHOOSE d \in 0..35 : SeqIdDigits[d + 1] = id[Len(id)])

\* Where c first occurs in s, and Len(s) + 1 when it does not.
FirstIndex(s, c) ==
  IF \E j \in 1..Len(s) : s[j] = c
    THEN CHOOSE j \in 1..Len(s) : s[j] = c /\ \A i \in 1..(j - 1) : s[i] # c
    ELSE Len(s) + 1

RECURSIVE Expand(_, _)
\* s with every back-reference S<seq-id>_ replaced by the expansion of the
\* String recorded for its dictionary index.
Expand(s, texts) ==
  LET k == FirstIndex(s, "S")
  IN IF k > Len(s) THEN s
     ELSE LET r == SubSeq(s, k + 1, Len(s))
              j == FirstIndex(r, "_")
              id == SubSeq(r, 1, j - 1)
              index == IF id = <<>> THEN 0 ELSE Value36(id) + 1
          IN SubSeq(s, 1, k - 1)
             \o Expand(texts[index + 1], texts)
             \o Expand(SubSeq(r, j + 1, Len(r)), texts)

\* C10: with every back-reference of the returned String replaced by the
\* String recorded for its dictionary index, the result is what the encoder
\* returns with compression disabled.
C10_Fidelity ==
  \A t \in Threads :
    Done(t) =>
      Prefix \o Expand(SubSeq(typeid(t), Len(Prefix) + 1, Len(typeid(t))), subst[t])
        = TypeidOf(call[t], FALSE)

\* ------------------------------------------------------------------ KCFI

\* The identifiers the codegen test expects: at the call through
\* fn(i32) -> i32, at the call through fn(i32, i32) -> i32, and for
\* fn(fn(i32) -> i32, i32) -> i32.
KcfiFnI32 == -1666898348
KcfiFnI32I32 == -1789026986
KcfiFnFnI32I32 == 653723426

\* A kcfi_typeid_* call of thread t has returned.
Hashed(t) == pc[t] = "done" /\ IsKcfi(call[t])

TypeidFnI32 == Prefix \o <<"u","3","i","3","2","S","_","E">>
TypeidFnI32I32 == Prefix \o <<"u","3","i","3","2","S","_","S","_","E">>
TypeidFnFnI32I32 ==
  Prefix \o <<"u","3","i","3","2","P","F","S","_","S","_","E","S","_","E">>

\* The u32 returned is made of the 32 low bits of the hash of the bytes of
\* the String the inner call returned.
C11_HashStep ==
  \A t \in Threads :
    pc[t] = "hash" /\ pc'[t] = "done" =>
      LET h == XxHash64(as_bytes(typeid(t)))
      IN kcfi'[t] = [i \in 1..4 |-> h[i]]

\* Two returned calls with the same String have the same u32.
C11_SameText ==
  \A t, u \in Threads :
    Hashed(t) /\ Hashed(u) /\ typeid(t) = typeid(u) => kcfi[t] = kcfi[u]

\* The u32 of the signatures of the codegen test are the ones it expects.
C11_Expected ==
  \A t \in Threads :
    Hashed(t) =>
      /\ typeid(t) = TypeidFnI32 => AsI32(kcfi[t]) = KcfiFnI32
      /\ typeid(t) = TypeidFnI32I32 => AsI32(kcfi[t]) = KcfiFnI32I32
      /\ typeid(t) = TypeidFnFnI32I32 => AsI32(kcfi[t]) = KcfiFnFnI32I32

\* C11: what kcfi_typeid_for_fnabi and kcfi_typeid_for_instance return is
\* the low 32 bits of the xxHash64 of the bytes of the String of
\* typeid_for_fnabi or typeid_for_instance for the same arguments, so equal
\* Strings get equal identifiers, and the identifiers of the signatures of
\* the codegen test are the expected ones.
C11_Kcfi == [](C11_SameText /\ C11_Expected) /\ [][C11_HashStep]_vars

\* Two calls with different arguments returned the String of
\* fn(i32) -> i32 and its identifier, and so did two calls for one method of
\* two impls at some other time.
C11_Witness ==
  \E t, u \in Threads :
    /\ t # u
    /\ Hashed(t) /\ Hashed(u)
    /\ call[t] # call[u]
    /\ typeid(t) = typeid(u)
    /\ \/ /\ typeid(t) = TypeidFnI32
          /\ AsI32(kcfi[u]) = KcfiFnI32
       \/ /\ call[t].entry = "kcfi_typeid_for_instance"
          /\ call[t].instance = MethodOfI32
          /\ call[u].instance = MethodOfFoo

\* ------------------------------------------------------------------ cfi_encoding

\* The type carries a cfi_encoding whose trimmed value is a built-in token.
HasBuiltinOverride(ty) ==
  /\ ty.kind \in {"Adt", "Foreign"}
  /\ ty.def.cfi_encoding.present
  /\ ty.def.cfi_encoding.has_value
  /\ trim(ty.def.cfi_encoding.value) \in builtin_types

\* The types the call encodes: the return type and the passed arguments.
EncodedOf(in) == <<in.fn_abi.ret.ty>> \o PassedOf(in)

\* C12: a type whose trimmed cfi_encoding is a built-in Itanium token, an ADT
\* or a foreign type, gets no dictionary slot, and each of its occurrences in
\* the signature is the token itself: a signature whose parameters all carry
\* such an override is returned as it is written without compression.
C12_BuiltinNotCompressed ==
  \A t \in Threads :
    Done(t) =>
      /\ \A key \in DOMAIN dict[t] : key.k = "Ty" => ~HasBuiltinOverride(key.ty)
      /\ (\A j \in 1..Len(PassedOf(call[t])) : HasBuiltinOverride(PassedOf(call[t])[j]))
           => typeid(t) = TypeidOf(call[t], FALSE)

\* The type carries a cfi_encoding whose trimmed value is empty.
HasEmptyOverride(ty) ==
  /\ ty.kind \in {"Adt", "Foreign"}
  /\ ty.def.cfi_encoding.present
  /\ ty.def.cfi_encoding.has_value
  /\ trim(ty.def.cfi_encoding.value) = <<>>

\* The same item without its cfi_encoding attribute.
WithoutAttr(ty) == [ty EXCEPT !.def.cfi_encoding = NoAttr]

\* The call with every argument of an empty override taken as the item
\* without the attribute.
DefaultPath(in) ==
  [in EXCEPT !.fn_abi.args =
     [j \in 1..Len(in.fn_abi.args) |->
        LET a == in.fn_abi.args[j]
        IN IF HasEmptyOverride(a.ty) THEN ArgAbi(WithoutAttr(a.ty), a.mode) ELSE a]]

\* C13: a call with an argument, an ADT or a foreign type, whose trimmed
\* cfi_encoding is empty reports a diagnostic and returns what it returns for
\* the same items without the attribute: the type contributes its default
\* encoding.
C13_EmptyFallsThrough ==
  \A t \in Threads :
    (/\ Done(t)
     /\ \E j \in 1..Len(PassedOf(call[t])) : HasEmptyOverride(PassedOf(call[t])[j]))
      => /\ errors[t] > 0
         /\ typeid(t) = TypeidOf(DefaultPath(call[t]), TRUE)

\* ------------------------------------------------------------------ order of indices

\* The keys of the generic arguments.
KeysOfArgs(args) ==
  {KeyTy(args[i].ty, "None") : i \in {j \in 1..Len(args) : args[j].ak = "Type"}}
  \cup {KeyConst(args[i].const) : i \in {j \in 1..Len(args) : args[j].ak = "Const"}}
  \cup {KeyRegion(args[i].region) : i \in {j \in 1..Len(args) : args[j].ak = "Lifetime"}}

\* The keys compress is called with while the entry of `key` is being built:
\* the components of a compound type, of a qualified type, of a predicate.
Components(key) ==
  CASE key.k = "Ty" /\ key.q = "Const" -> {KeyTy(key.ty, "None")}
    [] key.k = "Ty" /\ key.q = "Mut" ->
         {KeyTy(TRef(key.ty.region, key.ty.ty, FALSE), "None")}
    [] key.k = "Ty" /\ key.q = "None" ->
         LET ty == key.ty
         IN CASE ty.kind = "Tuple" -> {KeyTy(ty.tys[i], "None") : i \in 1..Len(ty.tys)}
              [] ty.kind \in {"Array", "Slice", "Ref"} -> {KeyTy(ty.ty, "None")}
              [] ty.kind = "RawPtr" ->
                   IF is_mutable_ptr(ty) THEN {KeyTy(ty.ty, "None")}
                   ELSE {KeyTy(ty.ty, "None"), KeyTy(ty.ty, "Const")}
              [] ty.kind = "FnPtr" ->
                   {KeyTy(ty.sig.output, "None")}
                   \cup {KeyTy(ty.sig.inputs[i], "None") : i \in 1..Len(ty.sig.inputs)}
              [] ty.kind = "Adt" /\ ~ty.def.cfi_encoding.present /\ ~ty.def.repr_c ->
                   KeysOfArgs(ty.args)
              [] ty.kind = "Dynamic" ->
                   {KeyPredicate(ty.preds[i]) : i \in 1..Len(ty.preds)}
                   \cup {KeyRegion(ty.region)}
              [] OTHER -> {}
    [] key.k = "Predicate" -> KeysOfArgs(key.pred.args)
    [] OTHER -> {}

\* The keys met in the return type and the first j passed arguments.
KeysMet(in, j) ==
  LET o == Effective(in)
      tys == SubSeq(EncodedOf(in), 1, j + 1)
  IN DOMAIN Run(<< <<>> >>, [i \in 1..Len(tys) |-> CallTy(transform(o, tys[i]), o)],
                EmptyDict, TRUE).dict

RECURSIVE Times(_, _)
\* n copies of s.
Times(s, num) == IF num = 0 THEN <<>> ELSE s \o Times(s, num - 1)

\* The call returns i32 and passes i32 arguments only, none of them variadic.
AllI32(in) ==
  /\ in.fn_abi.ret.ty = I32
  /\ ~in.fn_abi.c_variadic
  /\ PassedOf(in) = [j \in 1..Len(in.fn_abi.args) |-> I32]

\* C14: the indices of a call's dictionary follow the first visits of the
\* left-to-right descent: a component that has an index has a lower one than
\* what it is a component of; when the call has returned, the keys met in the
\* return type and the first j arguments have lower indices than the keys
\* first met later; and a type met again is a back-reference: fn(i32) -> i32
\* is "_ZTSFu3i32S_E", each further i32 one more "S_".
C14_FirstVisitOrder ==
  \A t \in Threads :
    /\ \A key \in DOMAIN dict[t] :
         \A part \in Components(key) \cap DOMAIN dict[t] : dict[t][part] < dict[t][key]
    /\ Done(t) =>
         \A j \in 0..Len(PassedOf(call[t])) :
           \A early \in KeysMet(call[t], j) :
             /\ early \in DOMAIN dict[t]
             /\ \A late \in DOMAIN dict[t] \ KeysMet(call[t], j) :
                  dict[t][early] < dict[t][late]
    /\ Done(t) /\ AllI32(call[t]) =>
         typeid(t) =
           <<"_","Z","T","S","F","u","3","i","3","2">>
           \o Times(<<"S","_">>, Len(PassedOf(call[t])))
           \o (IF PassedOf(call[t]) = <<>> THEN <<"v">> ELSE <<>>)
           \o <<"E">> \o Suffixes(call[t].options)

\* fn(i32, Sink) -> i32 has returned: i32 has index 0 and is a back-reference
\* as a parameter, and Sink, the last compound finished, has the last index.
C14_Witness ==
  /\ Done(1)
  /\ call[1] = Input(FnAbi("Rust", Direct(I32), <<Direct(I32), Direct(Sink)>>, FALSE, 2), {})
  /\ dict[1][KeyTy(I32, "None")] = 0
  /\ dict[1][KeyTy(Sink, "None")] = Cardinality(DOMAIN dict[1]) - 1
  /\ Cardinality(DOMAIN dict[1]) > 5
  /\ SubSeq(typeid(1), 1, 12) = <<"_","Z","T","S","F","u","3","i","3","2","S","_">>

\* ------------------------------------------------------------------ const literals

\* encode_const is about to compress the literal it has written.
LiteralDone(t) == Running(t, "compress") /\ Head(todo[t]).key.k = "Const"

\* The const and the String of that encode_const call.
LiteralConst(t) == Head(todo[t]).key.const
Literal(t) == stack[t][Len(stack[t])]

\* What encode_ty may return for the element type ty: its name, or the
\* back-reference to it.
ElementType(t, ty) ==
  IF ty.kind = "Bool" THEN {<<"b">>}
  ELSE {IntName(ty)}
       \cup {<<"S">> \o to_seq_id(dict[t][key]) \o <<"_">> :
               key \in {KeyTy(ty, "None")} \cap DOMAIN dict[t]}

\* "L" <element type> <value> "E"
LiteralsWith(t, ty, value) ==
  {<<"L">> \o e \o value \o <<"E">> : e \in ElementType(t, ty)}

Magnitude(val) == IF val < 0 THEN 0 - val ELSE val

\* C15: the literal of a signed integer const value is "L", the element
\* type, "n" exactly when the sign-extended value is negative, the decimal
\* digits of its magnitude without a minus sign, and "E".
C15_SignedLiteral ==
  \A t \in Threads :
    LiteralDone(t) /\ LiteralConst(t).ck = "Value" /\ LiteralConst(t).ty.kind = "Int" =>
      LET c == LiteralConst(t)
          val == sign_extend(c.bits, IntSize(c.ty))
      IN Literal(t) \in
           LiteralsWith(t, c.ty,
                        (IF val < 0 THEN <<"n">> ELSE <<>>) \o Dec(Magnitude(val)))

\* C16: the literal of a boolean const value is "L", "b", the digit "0" for
\* false and "1" for true, and "E"; the literal of an unsigned integer const
\* value is "L", the element type, its decimal digits, and "E".
C16_BoolAndUnsignedLiteral ==
  \A t \in Threads :
    LiteralDone(t) /\ LiteralConst(t).ck = "Value" =>
      LET c == LiteralConst(t)
      IN /\ c.ty.kind = "Bool" =>
              Literal(t) \in
                LiteralsWith(t, c.ty, IF c.bits # 0 THEN <<"1">> ELSE <<"0">>)
         /\ c.ty.kind = "Uint" => Literal(t) \in LiteralsWith(t, c.ty, Dec(c.bits))

\* A const value of one of the four types.
SupportedConst(c) == c.ck = "Value" /\ c.ty.kind \in {"Int", "Uint", "Bool", "Char"}

\* The call passes Gen<{c}> arguments only, each c such a const value.
OnlySupportedConsts(in) ==
  /\ in.fn_abi.args # <<>>
  /\ \A j \in 1..Len(in.fn_abi.args) :
       LET ty == in.fn_abi.args[j].ty
       IN ty.kind = "Adt" /\ ty.def = DefGen /\ SupportedConst(ty.args[1].const)

\* C17: a const value of integer, unsigned integer, boolean or char type is
\* encoded as a literal: a call whose types hold such const values only does
\* not abort.
C17_FourTypesAccepted ==
  \A t \in Threads : OnlySupportedConsts(call[t]) => pc[t] # "bug"

\* ------------------------------------------------------------------ pointers

\* How many entries the dictionary of the thread has.
DictLen(t) == Cardinality(DOMAIN dict[t])

\* The String recorded at the first visit of a key.
TextOf(t, key) == subst[t][dict[t][key] + 1]

\* What encode_ty returns for a type: a built-in token, or for a type that
\* has a slot the String of its first visit or the back-reference to it.
EncodingsOf(t, ty) ==
  IF KeyTy(ty, "None") \in DOMAIN dict[t]
    THEN {TextOf(t, KeyTy(ty, "None")),
          <<"S">> \o to_seq_id(dict[t][KeyTy(ty, "None")]) \o <<"_">>}
    ELSE {EncodeAll(NoCall, <<ty>>, TRUE)}

\* The raw pointer type ptr is about to get its slot: its first visit.
FirstRawPtr(t, ptr) ==
  /\ Running(t, "compress")
  /\ Head(todo[t]).key = KeyTy(ptr, "None")
  /\ ptr.kind = "RawPtr"
  /\ KeyTy(ptr, "None") \notin DOMAIN dict[t]

\* The types the sampled raw pointers point to.
Pointees == {I32, TUnit, Bad}

C18_FirstConst ==
  \A t \in Threads : \A T \in Pointees :
    FirstRawPtr(t, TRawPtr(T, FALSE)) =>
      /\ KeyTy(T, "Const") \in DOMAIN dict[t]
      /\ dict[t][KeyTy(T, "Const")] = DictLen(t) - 1
      /\ KeyTy(T, "None") \in DOMAIN dict[t] => dict[t][KeyTy(T, "None")] < DictLen(t) - 1
      /\ \E e \in EncodingsOf(t, T) :
           /\ TextOf(t, KeyTy(T, "Const")) = <<"K">> \o e
           /\ Literal(t) = <<"P","K">> \o e
           /\ Literal(t) # e

C18_FirstMut ==
  \A t \in Threads : \A T \in Pointees :
    FirstRawPtr(t, TRawPtr(T, TRUE)) =>
      /\ Literal(t) \in {<<"P">> \o e : e \in EncodingsOf(t, T)}
      /\ KeyTy(T, "Const") \in DOMAIN dict[t] =>
           KeyTy(TRawPtr(T, FALSE), "None") \in DOMAIN dict[t]

\* A Const-qualified slot belongs to a *const pointer that has its slot or is
\* about to get it, and no two keys share a slot.
C18_Slots ==
  \A t \in Threads :
    /\ \A key \in DOMAIN dict[t] :
         key.k = "Ty" /\ key.q = "Const" =>
           \/ KeyTy(TRawPtr(key.ty, FALSE), "None") \in DOMAIN dict[t]
           \/ /\ pc[t] = "args"
              /\ \E i \in 1..Len(todo[t]) :
                   todo[t][i] = Compress(KeyTy(TRawPtr(key.ty, FALSE), "None"))
    /\ \A k1, k2 \in DOMAIN dict[t] : dict[t][k1] = dict[t][k2] => k1 = k2

\* fn(*const i32, i32), fn(*const i32, *const i32), fn(*mut i32, *const i32)
\* and fn(*mut i32, *mut i32) as they are returned.
C18_Returned ==
  \A t \in Threads :
    Done(t) /\ ~call[t].fn_abi.c_variadic /\ call[t].options = {} =>
      LET args == call[t].fn_abi.args
          const == Direct(TRawPtr(I32, FALSE))
          mut == Direct(TRawPtr(I32, TRUE))
      IN /\ args = <<const, Direct(I32)>> =>
              typeid(t) = <<"_","Z","T","S","F","v","P","K","u","3","i","3","2","S","_","E">>
         /\ args = <<const, const>> =>
              typeid(t) = <<"_","Z","T","S","F","v","P","K","u","3","i","3","2","S","1","_","E">>
         /\ args = <<mut, const>> =>
              typeid(t) = <<"_","Z","T","S","F","v","P","u","3","i","3","2","P","K","S","_","E">>
         /\ args = <<mut, mut>> =>
              typeid(t) = <<"_","Z","T","S","F","v","P","u","3","i","3","2","S","0","_","E">>

\* C18: a type and the raw pointers to it have slots and encodings of their
\* own. The first *const T is "PK" and the encoding of T, and takes the slots
\* of T (when T has one), of (T, Const) and of (*const T, None) in this
\* order; the first *mut T is "P" and the encoding of T and takes no
\* Const-qualified slot.
C18_RawPointers == C18_FirstConst /\ C18_FirstMut /\ C18_Slots /\ C18_Returned

\* fn(*mut i32, *const i32) has returned: four slots, for i32, *mut i32,
\* (i32, Const) and *const i32.
C18_Witness ==
  /\ Done(1)
  /\ call[1].fn_abi.args = <<Direct(TRawPtr(I32, TRUE)), Direct(TRawPtr(I32, FALSE))>>
  /\ ~call[1].fn_abi.c_variadic
  /\ dict[1][KeyTy(I32, "None")] = 0
  /\ dict[1][KeyTy(TRawPtr(I32, TRUE), "None")] = 1
  /\ dict[1][KeyTy(I32, "Const")] = 2
  /\ dict[1][KeyTy(TRawPtr(I32, FALSE), "None")] = 3
  /\ subst[1] = << <<"u","3","i","3","2">>, <<"P","u","3","i","3","2">>,
                   <<"K","S","_">>, <<"P","K","S","_">> >>

\* &i32 and &mut i32 of the sampled signatures.
RefI32 == TRef(ReErased, I32, FALSE)
MutI32 == TRef(ReErased, I32, TRUE)

\* The back-reference to the slot of a key.
BackRefTo(t, key) == <<"S">> \o to_seq_id(dict[t][key]) \o <<"_">>

\* The inner slot is keyed by the immutable reference and holds
\* "u3refI" <T> "E"; a Mut-qualified slot is keyed by the mutable reference,
\* comes after the inner slot and holds "U3mut" and the inner form or the
\* back-reference to it; a mutable reference has no other slot.
C19_Slots ==
  \A t \in Threads : \A key \in DOMAIN dict[t] :
    key.k = "Ty" /\ key.ty.kind = "Ref" =>
      LET inner == KeyTy(TRef(key.ty.region, key.ty.ty, FALSE), "None")
      IN /\ key.q \in {"None", "Mut"}
         /\ key.q = "None" =>
              /\ ~key.ty.mutbl
              /\ TextOf(t, key) \in
                   {<<"u","3","r","e","f","I">> \o e \o <<"E">> :
                      e \in EncodingsOf(t, key.ty.ty)}
         /\ key.q = "Mut" =>
              /\ key.ty.mutbl
              /\ inner \in DOMAIN dict[t]
              /\ dict[t][inner] < dict[t][key]
              /\ TextOf(t, key) \in
                   {<<"U","3","m","u","t">> \o e : e \in {TextOf(t, inner), BackRefTo(t, inner)}}

\* fn(&i32, &mut i32), fn(&mut i32, &i32), fn(&mut i32, &mut i32) and
\* fn(&i32, &i32) as they are returned, and the slots they leave.
C19_Returned ==
  \A t \in Threads :
    Done(t) /\ ~call[t].fn_abi.c_variadic /\ call[t].options = {} =>
      LET args == call[t].fn_abi.args
          ref == <<"u","3","r","e","f","I","u","3","i","3","2","E">>
          mut == <<"U","3","m","u","t">>
      IN /\ args = <<Direct(RefI32), Direct(MutI32)>> =>
              /\ typeid(t) = Prefix \o <<"v">> \o ref \o mut \o <<"S","0","_","E">>
              /\ dict[t] = (KeyTy(I32, "None") :> 0) @@ (KeyTy(RefI32, "None") :> 1)
                           @@ (KeyTy(MutI32, "Mut") :> 2)
         /\ args = <<Direct(MutI32), Direct(RefI32)>> =>
              /\ typeid(t) = Prefix \o <<"v">> \o mut \o ref \o <<"S","0","_","E">>
              /\ dict[t] = (KeyTy(I32, "None") :> 0) @@ (KeyTy(RefI32, "None") :> 1)
                           @@ (KeyTy(MutI32, "Mut") :> 2)
         /\ args = <<Direct(MutI32), Direct(MutI32)>> =>
              typeid(t) = Prefix \o <<"v">> \o mut \o ref \o <<"S","1","_","E">>
         /\ args = <<Direct(RefI32), Direct(RefI32)>> =>
              typeid(t) = Prefix \o <<"v">> \o ref \o <<"S","0","_","E">>

\* C19: &T and &mut T share the slot of the inner form "u3refI" <T> "E",
\* keyed by the immutable reference with qualifier None, and &mut T owns the
\* slot (&mut T, Mut) of the "U3mut" form: a first &mut T after &T is "U3mut"
\* and the back-reference to the slot of &T, and &T after &mut T is the
\* back-reference to the inner slot.
C19_References == C19_Slots /\ C19_Returned

\* fn(&i32, &mut i32) has returned: the inner slot is shared and the
\* Mut-qualified slot holds "U3mut" and a back-reference.
C19_Witness ==
  /\ Done(1)
  /\ call[1].fn_abi.args = <<Direct(RefI32), Direct(MutI32)>>
  /\ ~call[1].fn_abi.c_variadic
  /\ DictLen(1) = 3
  /\ TextOf(1, KeyTy(RefI32, "None")) = <<"u","3","r","e","f","I","u","3","i","3","2","E">>
  /\ TextOf(1, KeyTy(MutI32, "Mut")) = <<"U","3","m","u","t","S","0","_">>

\* ------------------------------------------------------------------ nested signatures

\* The options of a nested signature of the given ABI.
NestedOptions(abi) == IF abi = "C" THEN {GENERALIZE_REPR_C} ELSE {}

\* encode_fnsig is entered with no option set.
C20_EnteredEmpty ==
  \A t \in Threads : Running(t, "encode_fnsig") => Head(todo[t]).options = {}

\* The types of a nested signature are encoded under the options its own ABI
\* gives, whatever the call was given.
C20_Inside ==
  \A t \in Threads :
    Running(t, "encode_fnsig") /\ pc'[t] = "args" =>
      \A i \in 1..(Len(todo'[t]) - Len(todo[t]) + 1) :
        todo'[t][i].op = "encode_ty" =>
          todo'[t][i].options = NestedOptions(Head(todo[t]).sig.abi)

\* A step inside a call leaves the options of the call, and what was still
\* to encode with its options, as they were.
C20_Frame ==
  \A t \in Threads :
    pc[t] = "args" /\ pc'[t] = "args" /\ todo[t] # <<>> =>
      /\ options'[t] = options[t]
      /\ Len(todo'[t]) >= Len(todo[t]) - 1
      /\ SubSeq(todo'[t], Len(todo'[t]) - Len(todo[t]) + 2, Len(todo'[t])) = Tail(todo[t])

\* extern "C" fn(fn(Foo), Baz) and fn(extern "C" fn(Foo), Baz) as returned:
\* Foo by the ABI of the fn pointer, Baz by the ABI of the call.
C20_Returned ==
  \A t \in Threads :
    Done(t) /\ ~call[t].fn_abi.c_variadic =>
      LET in == call[t]
          foo == <<"u","1","3","N","t","C","s","0","_","2","c","r","3","F","o","o">>
          baz == <<"u","1","3","N","t","C","s","0","_","2","c","r","3","B","a","z">>
      IN /\ in.fn_abi.conv = "C" /\ in.fn_abi.args = <<Direct(FnFoo), Direct(Baz)>> =>
              typeid(t) = Prefix \o <<"v","P","F","v">> \o foo \o <<"E","3","B","a","z","E">>
                          \o Suffixes(in.options)
         /\ in.fn_abi.conv = "Rust" /\ in.fn_abi.args = <<Direct(FnFooC), Direct(Baz)>> =>
              typeid(t) = Prefix \o <<"v","P","F","v","3","F","o","o","E">> \o baz \o <<"E">>
                          \o Suffixes(in.options)

\* C20: a fn pointer is "P" and its signature encoded from empty options:
\* inside, GENERALIZE_REPR_C is set exactly for the C ABI of that signature
\* and no other bit is set, whatever the caller passed; what the enclosing
\* signature encodes afterwards is encoded under the enclosing options.
C20_FnPtrOptions ==
  [](C20_EnteredEmpty /\ C20_Returned) /\ [][C20_Inside /\ C20_Frame]_vars

\* extern "C" fn(fn(Foo), Baz) called with NORMALIZE_INTEGERS has returned.
C20_Witness ==
  /\ Done(1)
  /\ call[1] = Input(FnAbi("C", Direct(TUnit), <<Direct(FnFoo), Direct(Baz)>>, FALSE, 2),
                     {GENERALIZE_REPR_C, NORMALIZE_INTEGERS})
  /\ typeid(1) = Prefix \o <<"v","P","F","v","u","1","3","N","t","C","s","0","_","2","c","r",
                             "3","F","o","o","E","3","B","a","z","E">>
                 \o <<".","n","o","r","m","a","l","i","z","e","d">>

\* ------------------------------------------------------------------ option bits and the grammar

\* encode_ty(tcx, ty, dict, options) run alone from the dictionary d: the
\* String it returns, the dictionary it leaves, and whether it returned.
EncodeTyFrom(ty, o, d) ==
  LET end == Run(<< <<>> >>, <<CallTy(ty, o)>>, d, TRUE)
  IN [s |-> end.stack[1], dict |-> end.dict, ok |-> end.ok]

\* Two option sets that agree on GENERALIZE_REPR_C.
AgreeOnReprC(o1, o2) == (GENERALIZE_REPR_C \in o1) <=> (GENERALIZE_REPR_C \in o2)

\* C21: NORMALIZE_INTEGERS, GENERALIZE_POINTERS and NO_SELF_TYPE_ERASURE do
\* not bear on encode_ty: whenever a thread is about to run encode_ty on an
\* (already transformed) type with its dictionary as it is, the call returns
\* the same String and leaves the same dictionary under every option set that
\* agrees with the options of the call on GENERALIZE_REPR_C.
C21_GrammarIgnoresBits ==
  \A t \in Threads :
    Running(t, "encode_ty") =>
      LET ty == Head(todo[t]).ty
          o == Head(todo[t]).options
      IN \A o2 \in TypeIdOptions :
           AgreeOnReprC(o, o2) => EncodeTyFrom(ty, o2, dict[t]) = EncodeTyFrom(ty, o, dict[t])

\* encode_ty is about to run on the second Foo of extern "C" fn(&Foo, Foo)
\* under GENERALIZE_REPR_C and NORMALIZE_INTEGERS, the dictionary holding Foo
\* and &Foo; GENERALIZE_REPR_C is a bit that does bear on the String.
C21_Witness ==
  /\ Running(1, "encode_ty")
  /\ Head(todo[1]).ty = Foo
  /\ Head(todo[1]).options = {GENERALIZE_REPR_C, NORMALIZE_INTEGERS}
  /\ Cardinality(DOMAIN dict[1]) = 2
  /\ EncodeTyFrom(Foo, {GENERALIZE_REPR_C}, EmptyDict).s = <<"3","F","o","o">>
  /\ EncodeTyFrom(Foo, {NORMALIZE_INTEGERS}, EmptyDict).s # <<"3","F","o","o">>

\* ------------------------------------------------------------------ thin receivers

\* A raw pointer or a reference.
PointerOrRef(ty) == ty.kind \in {"RawPtr", "Ref"}

\* The fields of a type that are not 1-ZSTs.
NonOneZst(ty) == {i \in 1..Len(FieldsOf(ty)) : ~is_1zst(FieldsOf(ty)[i])}
HasUniqueField(ty) == Cardinality(NonOneZst(ty)) = 1
UniqueField(ty) == FieldsOf(ty)[CHOOSE i \in NonOneZst(ty) : TRUE]

RECURSIVE Chain(_)
\* A type, its unique non-1-ZST field, the unique non-1-ZST field of that,
\* and so on down to a pointer or to a type that has no such field.
Chain(ty) ==
  IF PointerOrRef(ty) \/ ~HasUniqueField(ty) THEN <<ty>>
  ELSE <<ty>> \o Chain(UniqueField(ty))

ChainEnd(ty) == Chain(ty)[Len(Chain(ty))]

\* A receiver the function is meant for.
GoodReceiver(ty) == HasLayout(ty) /\ ~is_unsized(ty) /\ PointerOrRef(ChainEnd(ty))

C22_Returned ==
  mir_pc = "thin_returned" =>
    /\ GoodReceiver(thin_ty)
    /\ PointerOrRef(receiver_layout)
    /\ receiver_layout = ChainEnd(thin_ty)
    /\ PointerOrRef(thin_ty) => receiver_layout = thin_ty

C22_OnTheChain ==
  mir_pc = "thin_loop" =>
    \E i \in 1..Len(Chain(thin_ty)) : receiver_layout = Chain(thin_ty)[i]

C22_Panics ==
  /\ mir_pc = "thin_loop" => ~is_unsized(thin_ty)
  /\ mir_pc = "thin_panic" => ~GoodReceiver(thin_ty)

\* C22: force_thin_self_ptr returns, for a sized receiver, the raw pointer or
\* reference at the end of the chain of unique non-1-ZST fields that starts
\* at the receiver (the receiver itself when it is one already); while it
\* runs its type is on that chain; and it panics, and only then, when the
\* receiver is unsized (or has no layout) or a type on the chain that is no
\* pointer lacks a unique non-1-ZST field.
C22_ForceThin ==
  /\ [](C22_Returned /\ C22_OnTheChain /\ C22_Panics)
  /\ [][(mir_pc = "thin_loop" /\ ~PointerOrRef(receiver_layout)
         /\ ~HasUniqueField(receiver_layout)) => mir_pc' = "thin_panic"]_vars
  /\ [][(mir_pc = "idle" /\ mir_pc' # "idle" /\ thin_ty' # thin_ty /\ is_unsized(thin_ty'))
          => mir_pc' = "thin_panic"]_vars

\* Own<Pin<*const Foo>> has been taken down to *const Foo in two turns.
C22_Witness ==
  /\ mir_pc = "thin_returned"
  /\ thin_ty = Own(Pin(PtrFoo))
  /\ receiver_layout = PtrFoo
  /\ Len(Chain(thin_ty)) = 3

\* ------------------------------------------------------------------ self type erasure

\* The call came in through typeid_for_instance or kcfi_typeid_for_instance.
IsInstanceCall(in) == in.instance # NoInstance

\* Two instances of one trait method: all but the concrete Self is the same.
SameMethod(i, j) == i.def = j.def /\ i.output = j.output /\ i.inputs = j.inputs

\* The signature of the method with the given type in the place of Self.
MethodAbi(instance, self) ==
  LET args == <<Direct(TRef(ReErased, self, FALSE))>>
              \o [i \in 1..Len(instance.inputs) |-> Direct(instance.inputs[i])]
  IN FnAbi("Rust", Direct(instance.output), args, FALSE, Len(args))

C23_Erased ==
  \A t, u \in Threads :
    (/\ Done(t) /\ Done(u)
     /\ IsInstanceCall(call[t]) /\ IsInstanceCall(call[u])
     /\ SameMethod(call[t].instance, call[u].instance)
     /\ call[t].options = call[u].options
     /\ NO_SELF_TYPE_ERASURE \notin call[t].options)
      => typeid(t) = typeid(u)

C23_Kept ==
  \A t \in Threads :
    (Done(t) /\ IsInstanceCall(call[t]) /\ NO_SELF_TYPE_ERASURE \in call[t].options)
      => /\ typeid(t) =
              TypeidOf(Input(MethodAbi(call[t].instance, call[t].instance.self_ty),
                             call[t].options), TRUE)
         /\ \A u \in Threads :
              (/\ Done(u) /\ IsInstanceCall(call[u])
               /\ SameMethod(call[t].instance, call[u].instance)
               /\ call[u].options = call[t].options
               /\ call[u].instance.self_ty # call[t].instance.self_ty)
                => typeid(u) # typeid(t)

\* C23: without NO_SELF_TYPE_ERASURE the identifier of a method instance is
\* the same for every concrete Self (Self is encoded as a sentinel); with it
\* the identifier is that of the signature with the concrete Self, and the
\* sampled instances that differ in Self differ in their identifiers.
C23_SelfErasure == C23_Erased /\ C23_Kept

\* Tr::method of i32 and of Foo, Self erased: both calls returned one String.
C23_Witness ==
  /\ Done(1) /\ Done(2)
  /\ call[1].instance = MethodOfI32
  /\ call[2].instance = MethodOfFoo
  /\ NO_SELF_TYPE_ERASURE \notin call[1].options \cup call[2].options
  /\ typeid(1) = typeid(2)
  /\ typeid(1) # TypeidOf(Input(MethodAbi(MethodOfI32, I32), {}), TRUE)

\* ------------------------------------------------------------------ encode_ty_name

\* encode_ty of thread t is about to write "u<len><name>" for a definition.
NamesDef(t) ==
  /\ Running(t, "encode_ty")
  /\ \/ Head(todo[t]).ty.kind \in {"FnDef", "Closure", "Coroutine"}
     \/ /\ Head(todo[t]).ty.kind = "Adt"
        /\ ~Head(todo[t]).ty.def.cfi_encoding.present
        /\ ~(GENERALIZE_REPR_C \in Head(todo[t]).options /\ Head(todo[t]).ty.def.repr_c)

\* What follows "u<len>" in the String that encode_ty has just created.
NameWritten(t, def) ==
  LET s == stack'[t][Len(stack'[t])]
      digits == CHOOSE k \in 1..3 : SubSeq(s, 2, 1 + k) = Dec(Len(s) - 1 - k)
  IN SubSeq(s, 2 + digits, Len(s))

RECURSIVE TagsRootFirst(_)
TagsRootFirst(path) ==
  IF path = <<>> THEN <<>>
  ELSE <<"N">> \o NamespaceTag(Head(path).data) \o TagsRootFirst(Tail(path))

RECURSIVE TagsInnermostFirst(_)
TagsInnermostFirst(path) ==
  IF path = <<>> THEN <<>>
  ELSE TagsInnermostFirst(Tail(path)) \o <<"N">> \o NamespaceTag(Head(path).data)

\* "C" + crate disambiguator + crate name length + crate name
CrateSection(def) ==
  <<"C">> \o to_disambiguator(def.krate.stable_crate_id)
  \o Dec(Len(def.krate.name)) \o def.krate.name

\* Stated of every step that creates the String of a named type: the name
\* starts with the tags root-first, then the crate.
C24_RootFirst ==
  [][\A t \in Threads :
       (NamesDef(t) /\ todo'[t] # todo[t]) =>
         LET def == Head(todo[t]).ty.def
         IN StartsWith(NameWritten(t, def), TagsRootFirst(def.path) \o CrateSection(def))]_vars

\* C24 as the code has it: the name starts with the tags of the path from
\* the innermost component out to the root ("N"+tag(cn) .. "N"+tag(c1)),
\* followed by "C", the crate disambiguator, the length of the crate name and
\* the crate name.
C24_InnermostFirst ==
  [][\A t \in Threads :
       (NamesDef(t) /\ todo'[t] # todo[t]) =>
         LET def == Head(todo[t]).ty.def
         IN StartsWith(NameWritten(t, def),
                       TagsInnermostFirst(def.path) \o CrateSection(def))]_vars

\* The closure of m::f has been given its String: "NCNvNt", then the crate.
C24_Witness ==
  /\ Running(1, "encode_args")
  /\ Top(1) = <<"u","3","3","N","C","N","v","N","t","C","s","0","_","2","c","r",
               "1","m","1","f","s","0","_","1","1",
               "{","{","c","l","o","s","u","r","e","}","}">>

\* The name section the components of a path are given, root first: the
\* disambiguator unless the number is 0, the decimal length of the name as it
\* is in the path, one '_' if the name starts with an ASCII digit or '_', and
\* the name.
RECURSIVE NamesRootFirst(_)
NamesRootFirst(path) ==
  IF path = <<>> THEN <<>>
  ELSE LET comp == Head(path)
           lexed == Head(comp.name) \in {"0","1","2","3","4","5","6","7","8","9","_"}
       IN (IF comp.disambiguator = 0 THEN <<>> ELSE to_disambiguator(comp.disambiguator))
          \o Dec(Len(comp.name))
          \o (IF lexed THEN <<"_">> ELSE <<>>)
          \o comp.name
          \o NamesRootFirst(Tail(path))

\* C25: every step that creates the String of a named type writes, after the
\* tags and the crate, the components root-first as [disambiguator]<len><name>:
\* no disambiguator for number 0, one extra '_' between the length and a name
\* that starts with an ASCII digit or '_', and the length that of the name
\* itself (m::_Priv ends "1m5__Priv", 9x ends "2_9x", <impl#2>::foo ends
\* "s1_8{{impl}}3foo").
C25_NameSection ==
  [][\A t \in Threads :
       (NamesDef(t) /\ todo'[t] # todo[t]) =>
         LET def == Head(todo[t]).ty.def
             written == NameWritten(t, def)
         IN /\ written = TagsInnermostFirst(def.path) \o CrateSection(def)
                           \o NamesRootFirst(def.path)
            /\ def = DefPriv => EndsWith(written, <<"1","m","5","_","_","P","r","i","v">>)
            /\ def = DefDigit => EndsWith(written, <<"2","_","9","x">>)
            /\ def = DefFnF => EndsWith(written, <<"r","1","m","1","f">>)
            /\ def = DefMethod =>
                 EndsWith(written, <<"s","1","_","8","{","{","i","m","p","l","}","}",
                                     "3","f","o","o">>)]_vars

\* The struct m::_Priv has been given its String "u20NtNtCs0_2cr1m5__Priv".
C25_Witness ==
  /\ Running(1, "encode_args")
  /\ Top(1) = <<"u","2","0","N","t","N","t","C","s","0","_","2","c","r",
               "1","m","5","_","_","P","r","i","v">>

\* ------------------------------------------------------------------ the ty::Adt arm

\* encode_ty of thread t is about to encode an ADT.
AtAdt(t) == Running(t, "encode_ty") /\ Head(todo[t]).ty.kind = "Adt"

\* The String the call that has just been entered starts with.
Written(t) == stack'[t][Len(stack'[t])]

\* <len><name> of the last component of the path alone.
ItemNameOnly(def) ==
  LET name == def.path[Len(def.path)].name IN Dec(Len(name)) \o name

\* "u"<len><ty_name>
PathForm(def) ==
  LET name == TagsInnermostFirst(def.path) \o CrateSection(def) \o NamesRootFirst(def.path)
  IN <<"u">> \o Dec(Len(name)) \o name

\* C26: an ADT without cfi_encoding is written as <len><name> of its item
\* name, with no call of encode_args, exactly when GENERALIZE_REPR_C is among
\* the options and the ADT is repr(C), and otherwise as "u"<len><ty_name>
\* followed by the encoding of its generic arguments; an ADT with a (non-blank)
\* cfi_encoding is written as the attribute's value whatever the options; and
\* a call of the C convention whose first encoded argument is the repr(C)
\* struct Foo of either crate returns "_ZTSFv3Foo" and what follows.
C26_AdtArm ==
  /\ [][\A t \in Threads :
          (AtAdt(t) /\ todo'[t] # todo[t]) =>
            LET ty == Head(todo[t]).ty
                def == ty.def
                o == Head(todo[t]).options
                next == Head(todo'[t])
            IN IF def.cfi_encoding.present
                 THEN trim(def.cfi_encoding.value) # <<>> =>
                        /\ Written(t) = trim(def.cfi_encoding.value)
                        /\ next.op # "encode_args"
                 ELSE IF GENERALIZE_REPR_C \in o /\ def.repr_c
                        THEN /\ Written(t) = ItemNameOnly(def)
                             /\ next = Compress(KeyTy(ty, "None"))
                        ELSE /\ Written(t) = PathForm(def)
                             /\ Written(t) # ItemNameOnly(def)
                             /\ next = CallArgs(ty.args, o)]_vars
  /\ [](\A t \in Threads :
          (/\ pc[t] = "done"
           /\ call[t].entry = "typeid_for_fnabi"
           /\ call[t].fn_abi.conv = "C"
           /\ ArgLimit(call[t].fn_abi) >= 1
           /\ call[t].fn_abi.args[1].mode # "Ignore"
           /\ call[t].fn_abi.args[1].ty \in {Foo, TAdt(DefFooB, <<>>)})
          => StartsWith(typeid(t), <<"_","Z","T","S","F","v","3","F","o","o">>))

\* A C call over ot::ffi::Foo and the #[repr(C)] #[cfi_encoding = "3Qux"]
\* struct Tagged, made with GENERALIZE_REPR_C, has returned "_ZTSFv3Foo3QuxE".
C26_Witness ==
  /\ pc[1] = "done"
  /\ call[1].fn_abi.conv = "C"
  /\ GENERALIZE_REPR_C \in call[1].options
  /\ typeid(1) = <<"_","Z","T","S","F","v","3","F","o","o","3","Q","u","x","E">>

\* ------------------------------------------------------------------ RewriteReceiver::run_pass

\* The locals a body names, in the order of its blocks, statements and
\* terminators, then those of its debug info.
LocalsOfOperand(operand) ==
  IF operand.op = "Constant" THEN <<>> ELSE <<operand.place.local>>
LocalsOfStatement(statement) ==
  IF statement.sk = "Assign"
    THEN <<statement.place.local>> \o LocalsOfOperand(statement.rvalue.operand)
    ELSE <<statement.local>>
LocalsOfTerminator(terminator) ==
  IF terminator.tk = "Call"
    THEN Concat([i \in 1..Len(terminator.args) |-> LocalsOfOperand(terminator.args[i])])
         \o <<terminator.destination.local>>
    ELSE <<>>
LocalsOfBlock(data) ==
  Concat([i \in 1..Len(data.statements) |-> LocalsOfStatement(data.statements[i])])
  \o LocalsOfTerminator(data.terminator)
Uses(b) ==
  Concat([i \in 1..Len(b.basic_blocks) |-> LocalsOfBlock(b.basic_blocks[i])])
  \o [i \in 1..Len(b.var_debug_info) |-> b.var_debug_info[i].place.local]

\* The kinds of the statements and terminators of a body, block by block.
Shape(b) ==
  [i \in 1..Len(b.basic_blocks) |->
     <<[j \in 1..Len(b.basic_blocks[i].statements) |-> b.basic_blocks[i].statements[j].sk],
       b.basic_blocks[i].terminator.tk>>]

\* The body without the first statement of its start block.
WithoutFirst(b) == [b EXCEPT !.basic_blocks[1].statements = Tail(@)]

\* C27: when run_pass has returned (the body had an argument), local_decls is
\* one longer and its last element is the receiver's declaration as it was;
\* the receiver is declared invoke_ty and immutable and no other declaration
\* has changed; the first statement of the start block assigns to the new
\* local the transmute of (move receiver) to the receiver's former type, and
\* the statements that were there follow it; that statement holds the only
\* use of the receiver left, every use the body had of it names the new
\* local, and all other uses are as they were. Without an argument the pass
\* panics.
C27_RunPass ==
  /\ [](mir_pc = "pass_done" =>
          LET new == Len(original.local_decls)
              inserted == body.basic_blocks[1].statements[1]
              before == Uses(original)
              after == Uses(WithoutFirst(body))
          IN /\ original.arg_count >= 1
             /\ Len(body.local_decls) = Len(original.local_decls) + 1
             /\ body.local_decls[new + 1] = original.local_decls[2]
             /\ body.local_decls[2] = [ty |-> invoke_ty, mutability |-> "Not"]
             /\ \A l \in 1..Len(original.local_decls) :
                  l # 2 => body.local_decls[l] = original.local_decls[l]
             /\ inserted =
                  [sk |-> "Assign",
                   place |-> [local |-> new, projection |-> <<>>],
                   rvalue |-> [rv |-> "Cast", kind |-> "Transmute",
                               operand |-> [op |-> "Move",
                                            place |-> [local |-> 1, projection |-> <<>>]],
                               ty |-> original.local_decls[2].ty]]
             /\ Shape(WithoutFirst(body)) = Shape(original)
             /\ body.arg_count = original.arg_count
             /\ after = [i \in 1..Len(before) |-> IF before[i] = 1 THEN new ELSE before[i]]
             /\ Cardinality({i \in 1..Len(Uses(body)) : Uses(body)[i] = 1}) = 1)
  /\ [](mir_pc = "pass_panic" => original.arg_count = 0)

\* The pass has run on a body of two arguments whose mutable receiver was
\* used by a statement, by the call that ends the start block and by the
\* debug info.
C27_Witness ==
  /\ mir_pc = "pass_done"
  /\ original.arg_count = 2
  /\ original.local_decls[2] = LocalDecl(Pin(RefFoo), "Mut")
  /\ Cardinality({i \in 1..Len(Uses(original)) : Uses(original)[i] = 1}) >= 4
  /\ original.basic_blocks[1].terminator.tk = "Call"
  /\ original.var_debug_info # <<>>

\* ------------------------------------------------------------------ no forward references

RECURSIVE RefsIn(_)
\* The dictionary indices the back-references S<seq-id>_ of s denote.
RefsIn(s) ==
  LET k == FirstIndex(s, "S")
  IN IF k > Len(s) THEN {}
     ELSE LET r == SubSeq(s, k + 1, Len(s))
              j == FirstIndex(r, "_")
              id == SubSeq(r, 1, j - 1)
          IN {IF id = <<>> THEN 0 ELSE Value36(id) + 1}
             \cup RefsIn(SubSeq(r, j + 1, Len(r)))

\* A String of the stack without the "_ZTS" the identifier starts with.
Unprefixed(s) ==
  IF StartsWith(s, <<"_","Z","T","S">>) THEN SubSeq(s, 5, Len(s)) ELSE s

\* The encoding of a type with compression off.
Uncompressed(ty, o) == Run(<< <<>> >>, <<CallTy(ty, o)>>, EmptyDict, FALSE).stack[1]

\* What the entry of a DictKey::Ty key stands for, its qualifier included.
FullText(key, o) ==
  IF key.q = "Const" THEN <<"K">> \o Uncompressed(key.ty, o) ELSE Uncompressed(key.ty, o)

\* Every back-reference of every String under construction (and of the
\* identifier) denotes an index below the size of the dictionary.
C28_Backward ==
  \A t \in Threads :
    pc[t] \in {"args", "hash", "done"} =>
      \A d \in 1..Len(stack[t]) :
        \A i \in RefsIn(Unprefixed(stack[t][d])) : i < Cardinality(DOMAIN dict[t])

\* The String an index was inserted with refers to earlier indices only.
C28_EarlierOnly ==
  \A t \in Threads :
    \A k \in 1..Len(subst[t]) : \A i \in RefsIn(subst[t][k]) : i < k - 1

\* A compress call that inserts the key of a type is handed the whole
\* encoding of that type: with its back-references expanded it is what the
\* type encodes to with compression off.
C28_AfterSubtree ==
  \A t \in Threads :
    (/\ Running(t, "compress")
     /\ Head(todo[t]).key.k = "Ty"
     /\ Head(todo[t]).key \notin DOMAIN dict[t])
    => \E o \in {{}, {GENERALIZE_REPR_C}} :
         Expand(Top(t), subst[t]) = FullText(Head(todo[t]).key, o)

\* What a call has left to do after a compress call that inserts a key: no
\* further encoder call and nothing appended, only qualifiers put in front,
\* their compress calls, and the return.
C28_Discipline ==
  \A t \in Threads :
    (Running(t, "compress") /\ Head(todo[t]).key \notin DOMAIN dict[t]) =>
      LET rest == Tail(todo[t])
          ret == CHOOSE j \in 1..Len(rest) :
                   rest[j].op = "return" /\ \A i \in 1..(j - 1) : rest[i].op # "return"
      IN \A i \in 1..(ret - 1) : rest[i].op \in {"prepend", "compress"}

\* C28: at every point of an encoding each back-reference of the output
\* built so far denotes an index smaller than the size of the dictionary, the
\* String recorded for an index refers to smaller indices only, and a key is
\* inserted when the whole expansion of its subtree has been built.
C28_NoForwardReferences ==
  C28_Backward /\ C28_EarlierOnly /\ C28_AfterSubtree /\ C28_Discipline

\* In the middle of an encoding the String under construction holds a
\* back-reference to index 1 or beyond and a key of a type is about to be
\* inserted.
C28_Witness ==
  /\ Running(1, "compress")
  /\ Head(todo[1]).key.k = "Ty"
  /\ Head(todo[1]).key \notin DOMAIN dict[1]
  /\ \E i \in RefsIn(Top(1)) : i >= 1

\* ------------------------------------------------------------------ termination

InstrOps ==
  {"encode_ty", "encode_fnsig", "encode_args", "encode_const", "encode_region",
   "encode_predicates", "encode_predicate", "push_str", "prepend", "compress",
   "emit_err", "bug", "return"}

RECURSIVE Expanded(_, _)
\* How many instructions with an op of ops the instructions come to, the
\* bodies of the calls among them included.
Expanded(instrs, ops) ==
  IF instrs = <<>> THEN 0
  ELSE LET i == Head(instrs)
       IN (IF i.op \in ops THEN 1 ELSE 0)
          + (IF IsCall(i) THEN Expanded(BodyOf(i).body, ops) ELSE 0)
          + Expanded(Tail(instrs), ops)

RECURSIVE ArgsAhead(_, _, _)
\* The encode_ty calls of the loop over the arguments, from argument nn + 1.
ArgsAhead(in, o, nn) ==
  IF nn >= ArgLimit(in.fn_abi) THEN <<>>
  ELSE (IF in.fn_abi.args[nn + 1].mode = "Ignore" THEN <<>>
        ELSE <<CallTy(transform(o, in.fn_abi.args[nn + 1].ty), o)>>)
       \o ArgsAhead(in, o, nn + 1)

\* The steps a thread has left: its instructions, the arguments still to go
\* through with theirs, the tail of typeid_for_fnabi and the hash.
StepsLeft(p, td, in, o, nn) ==
  CASE p = "args" ->
         Expanded(td \o ArgsAhead(in, o, nn), InstrOps)
         + (ArgLimit(in.fn_abi) - nn) + 1 + (IF IsKcfi(in) THEN 1 ELSE 0)
    [] p = "hash" -> 1
    [] OTHER -> 0

\* The compress calls of a whole call, and those that a thread has made.
CompressCalls(in, o) ==
  Expanded(<<CallTy(transform(o, in.fn_abi.ret.ty), o)>> \o ArgsAhead(in, o, 0), {"compress"})
CompressCallsMade(t) ==
  CompressCalls(call[t], options[t])
  - Expanded(todo[t] \o ArgsAhead(call[t], options[t], n[t]), {"compress"})

RECURSIVE SumOver(_, _)
\* The sum of f[i] for i in S.
SumOver(f, S) ==
  IF S = {} THEN 0 ELSE LET i == CHOOSE j \in S : TRUE IN f[i] + SumOver(f, S \ {i})

RECURSIVE Nodes(_)
\* The type nodes of the tree of a type: itself, its component types, the
\* types of its generic arguments and const arguments, of the signature of a
\* fn pointer and of the arguments and terms of the predicates of a dyn type.
Nodes(ty) ==
  LET OfArgs(args) ==
        SumOver([i \in 1..Len(args) |->
                   CASE args[i].ak = "Type" -> Nodes(args[i].ty)
                     [] args[i].ak = "Const" -> Nodes(args[i].const.ty)
                     [] OTHER -> 0], 1..Len(args))
      OfPred(pred) ==
        CASE pred.pk = "Trait" -> OfArgs(pred.args)
          [] pred.pk = "Projection" -> OfArgs(pred.args) + OfArgs(<<pred.term>>)
          [] OTHER -> 0
  IN 1 + CASE ty.kind = "Tuple" ->
                SumOver([i \in 1..Len(ty.tys) |-> Nodes(ty.tys[i])], 1..Len(ty.tys))
           [] ty.kind \in {"Array", "Slice", "Ref", "RawPtr"} -> Nodes(ty.ty)
           [] ty.kind \in {"Adt", "FnDef", "Closure", "Coroutine"} -> OfArgs(ty.args)
           [] ty.kind = "FnPtr" ->
                Nodes(ty.sig.output)
                + SumOver([i \in 1..Len(ty.sig.inputs) |-> Nodes(ty.sig.inputs[i])],
                          1..Len(ty.sig.inputs))
           [] ty.kind = "Dynamic" ->
                SumOver([i \in 1..Len(ty.preds) |-> OfPred(ty.preds[i])], 1..Len(ty.preds))
           [] OTHER -> 0

\* Every step of a call leaves it fewer steps to take.
C29_Decreases ==
  [][\A t \in Threads :
       (pc[t] \in {"args", "hash"}
        /\ <<pc[t], todo[t], n[t], stack[t], kcfi[t]>>
             # <<pc'[t], todo'[t], n'[t], stack'[t], kcfi'[t]>>)
       => StepsLeft(pc'[t], todo'[t], call'[t], options'[t], n'[t])
            < StepsLeft(pc[t], todo[t], call[t], options[t], n[t])]_vars

\* An encode_ty call makes at most one encode_ty call for each node of the
\* tree of its type, itself included.
C29_VisitsBounded ==
  \A t \in Threads :
    Running(t, "encode_ty") =>
      Expanded(<<Head(todo[t])>>, {"encode_ty"}) <= Nodes(Head(todo[t]).ty)

\* The dictionary holds no more entries than compress calls were made.
C29_DictBounded ==
  \A t \in Threads :
    pc[t] = "args" => Cardinality(DOMAIN dict[t]) <= CompressCallsMade(t)

\* C29: a call that has been entered returns its String or panics, every
\* step leaving it fewer steps to take; an encode_ty call visits each node of
\* its type at most once; and the dictionary holds no more entries than the
\* number of compress calls made so far.
C29_Terminates ==
  /\ \A t \in Threads : (pc[t] = "args") ~> (pc[t] \in {"done", "bug"})
  /\ C29_Decreases
  /\ [](C29_VisitsBounded /\ C29_DictBounded)

\* A call over the tuple (extern "C" fn() -> *const Bad, m::Bar<dyn Tr, 1>),
\* passed twice, has returned with entries in its dictionary.
C29_Witness ==
  /\ pc[1] = "done"
  /\ PassedOf(call[1]) = <<Sink, Sink>>
  /\ Cardinality(DOMAIN dict[1]) >= 3

\* ------------------------------------------------------------------ encode_fnsig

\* encode_fnsig(tcx, fn_sig, dict, options) run alone from the dictionary d.
EncodeFnSigFrom(fn_sig, o, d) == Run(<< <<>> >>, <<CallFnSig(fn_sig, o)>>, d, TRUE).stack[1]

RECURSIVE Voids(_)
\* "v", num times.
Voids(num) == IF num = 0 THEN <<>> ELSE <<"v">> \o Voids(num - 1)

\* The parameters of type () that end the inputs of a signature.
TrailingUnits(tys) ==
  CHOOSE k \in 0..Len(tys) :
    /\ \A i \in (Len(tys) - k + 1)..Len(tys) : tys[i] = TUnit
    /\ k < Len(tys) => tys[Len(tys) - k] # TUnit

\* C30: encode_fnsig encodes every parameter, those of type () as "v" each,
\* and writes the void marker "v" for an empty parameter list that is not
\* variadic: run from one dictionary, a signature without parameters and the
\* same signature with the single parameter () both give "F", the encoding of
\* the return type and "vE"; a signature ends with one "v" for each of its
\* trailing () parameters before the "E" (or "zE"); and a variadic signature
\* without parameters gives "F", the return type and "zE".
C30_UnitParameters ==
  \A t \in Threads :
    Running(t, "encode_fnsig") =>
      LET sig == Head(todo[t]).sig
          o == Head(todo[t]).options
          so == IF sig.abi = "C" THEN o \cup {GENERALIZE_REPR_C}
                                 ELSE o \ {GENERALIZE_REPR_C}
          ret == EncodeTyFrom(transform(so, sig.output), so, dict[t]).s
          none == [sig EXCEPT !.inputs = <<>>]
          unit == [sig EXCEPT !.inputs = <<TUnit>>]
          k == TrailingUnits(sig.inputs)
          close == IF sig.c_variadic THEN <<"z","E">> ELSE <<"E">>
      IN /\ ~sig.c_variadic =>
              /\ EncodeFnSigFrom(none, o, dict[t]) = <<"F">> \o ret \o <<"v","E">>
              /\ EncodeFnSigFrom(unit, o, dict[t]) = <<"F">> \o ret \o <<"v","E">>
         /\ (sig.c_variadic /\ sig.inputs = <<>>) =>
              EncodeFnSigFrom(sig, o, dict[t]) = <<"F">> \o ret \o <<"z","E">>
         /\ sig.inputs # <<>> =>
              /\ EndsWith(EncodeFnSigFrom(sig, o, dict[t]), Voids(k) \o close)
              /\ k < Len(sig.inputs) =>
                   ~EndsWith(EncodeFnSigFrom(sig, o, dict[t]), Voids(k + 1) \o close)

\* The call over fn() and fn(()) has returned: the two pointers have the one
\* encoding "PFvvE", each under a key of its own.
C30_Witness ==
  /\ pc[1] = "done"
  /\ PassedOf(call[1]) = <<TFnPtr(FnSig("Rust", TUnit, <<>>, FALSE)),
                           TFnPtr(FnSig("Rust", TUnit, <<TUnit>>, FALSE))>>
  /\ typeid(1) = <<"_","Z","T","S","F","v","P","F","v","v","E","P","F","v","v","E","E">>

====
